---- MODULE Spec2Model ----
(***************************************************************************)
(* StudyFlowAPI: the ingestion coordinator (RAGService), the vector store  *)
(* gateway (QdrantService) and the query entry points, as a state machine. *)
(* Every `await` of the TypeScript source is a suspension point, so each   *)
(* request is a task that advances one awaited call at a time and tasks    *)
(* interleave between awaits.                                              *)
(***************************************************************************)
EXTENDS Integers, Sequences, FiniteSets, TLC

(***************************************************************************)
(* Bounds of the model                                                     *)
(***************************************************************************)
\* number of upserts of one document whose points may coexist in Qdrant
MaxBatches == 2

\* number of service requests the clients issue in one run
MaxRequests == 2

\* concurrent requests
Tasks == {"t1", "t2"}

Projects == {"p1"}

Documents == {"d1", "d2"}

\* the order in which prisma.document.findMany lists the rows
DocOrder == <<"d1", "d2">>

(***************************************************************************)
(* Program constants                                                       *)
(***************************************************************************)
\* RAG_CHUNK_SIZE default
chunkSize == 1000

\* RAG_CHUNK_OVERLAP default
chunkOverlap == 200

\* RAG_MAX_CHUNKS default: the limit of a similarity search
maxChunks == 5

(***************************************************************************)
(* Values                                                                  *)
(***************************************************************************)
\* SQL NULL of a TEXT column that holds a collection name
Null == <<>>

\* a file as uploaded: its extension, the shape of its content and the
\* number of characters that are not surrounding whitespace
\*   "prose" : ordinary text
\*   "page"  : text that starts with "Page <n>" (a page header)
\*   "blank" : whitespace only
RawFiles ==
  { [ext |-> ".txt", kind |-> "prose", len |-> 600],
    [ext |-> ".txt", kind |-> "prose", len |-> 1700],
    [ext |-> ".txt", kind |-> "page",  len |-> 900],
    [ext |-> ".txt", kind |-> "blank", len |-> 0],
    [ext |-> ".doc", kind |-> "prose", len |-> 600] }

NoFile == [ext |-> "", kind |-> "none", len |-> 0]

\* LangChainDocumentProcessor.isFileTypeSupported
isFileTypeSupported(ext) == ext \in {".pdf", ".docx", ".txt", ".md"}

\* LangChainDocumentProcessor.preprocessText: after /\s+/g -> ' ' the text is
\* one line, so /^Page \d+.*$/gm removes a text that starts with a page
\* header entirely; the result is trimmed.  Texts are represented by their
\* length, 0 being the empty string.
preprocessText(f) == IF f.kind = "page" THEN 0 ELSE f.len

\* LangChainDocumentProcessor.processDocument: the loader, [ok, text, error]
LoadDocument(f) ==
  IF f.kind = "none"
    THEN [ok |-> FALSE, text |-> 0, error |-> "LoaderFailure"]
  ELSE IF ~isFileTypeSupported(f.ext)
    THEN [ok |-> FALSE, text |-> 0, error |-> "Unsupported file type"]
  ELSE IF f.kind = "blank"
    THEN [ok |-> FALSE, text |-> 0, error |-> "No text content could be extracted from the document"]
  ELSE [ok |-> TRUE, text |-> preprocessText(f), error |-> ""]

\* LangChainDocumentProcessor.splitText with the recursive character
\* splitter on text without separators: chunks of chunkSize characters, each
\* starting with the last chunkOverlap characters of the previous one; the
\* empty text gives no chunk.  The result is the sequence of chunk lengths.
RECURSIVE splitFrom(_, _)
splitFrom(len, start) ==
  IF len - start <= chunkSize
    THEN <<len - start>>
    ELSE <<chunkSize>> \o splitFrom(len, start + chunkSize - chunkOverlap)

splitText(text) == IF text = 0 THEN <<>> ELSE splitFrom(text, 0)

(***************************************************************************)
(* State                                                                   *)
(***************************************************************************)
VARIABLES
  project,      \* projects table: p -> [qdrantCollectionId]
  document,     \* documents table: d -> row
  s3,           \* object storage: s3Key (one per document) -> raw file
  collections,  \* Qdrant: names of the existing collections
  points,       \* Qdrant: the points of all collections
  task,         \* the requests in flight: t -> locals and position
  active,       \* the tasks that accept requests
  requests      \* the number of requests issued so far

\* the ingestion coordinator and the query engine
ragVars == <<project, document, s3, collections, points, task, active, requests>>

VARIABLES
  conversations,  \* conversations table: the ids of the rows
  messages,       \* messages table in insertion order
  session,        \* chat requests in flight: s -> locals and position
  emitted,        \* s -> the events the server emitted on the socket of s
  connected,      \* s -> the socket of s is connected
  starts          \* the number of chat requests issued so far

\* the chat entry points
chatVars == <<conversations, messages, session, emitted, connected, starts>>

\* what the ingestion coordinator leaves alone
\* the call of getConversationMemory in flight
VARIABLES memcall
memVars == <<memcall>>

\* the calls of OpenAIService in flight
VARIABLES calls
apiVars == <<calls>>

\* the generated_files and generated_file_versions tables, the calls of
\* GeneratedFilesService in flight, the background generations, and the number
\* of calls so far
VARIABLES generatedFile, generatedFileVersion, fcall, generation, fcalls, storage
fileVars == <<generatedFile, generatedFileVersion, fcall, generation, fcalls, storage>>

\* one call of generateFileName; the loads of the document loader with the
\* temporary files on disk; the projects whose row has been deleted; the
\* conversations of projects of other professors
VARIABLES naming, loader, deletedProjects, foreign
auxVars == <<naming, loader, deletedProjects, foreign>>

otherVars == <<chatVars, memVars, apiVars, fileVars, auxVars>>
nonChatVars == <<ragVars, memVars, apiVars, fileVars, auxVars>>
nonMemVars == <<ragVars, conversations, session, emitted, connected, starts, apiVars,
                fileVars, auxVars>>
nonApiVars == <<ragVars, chatVars, memVars, fileVars, auxVars>>
nonFileVars == <<ragVars, chatVars, memVars, apiVars, auxVars>>
nonAuxVars == <<ragVars, chatVars, memVars, apiVars, fileVars>>

vars == <<ragVars, otherVars>>

NoRow == [status |-> "new", projectId |-> "", textContent |-> 0, processedAt |-> FALSE]

NoResult == [documentId |-> "", chunksProcessed |-> 0, collectionName |-> Null,
             success |-> FALSE, error |-> ""]

NoReply == [kind |-> "none", error |-> "", answer |-> "", sources |-> 0]

\* the call a client made before the current one, kept while requests are
\* served one at a time (what "a followed by b" refers to)
NoPrev == [op |-> "idle", documentId |-> "", success |-> FALSE]

\* chat sessions: sockets and REST requests in flight
Sessions == {"s1", "s2"}

\* the order in which prisma.conversation.create hands out ids
ConvOrder == <<"c1", "c2">>

NoConversation == ""

IdleSession == [kind |-> "idle", pc |-> "idle", projectId |-> "",
                conversationId |-> NoConversation, request |-> 0,
                created |-> FALSE, received |-> 0, response |-> "none"]

ChatInit ==
  /\ conversations = {}
  /\ messages = <<>>
  /\ session = [s \in Sessions |-> IdleSession]
  /\ emitted = [s \in Sessions |-> <<>>]
  /\ connected = [s \in Sessions |-> TRUE]
  /\ starts = 0

NoSummary == -1
NoMemory == [memoryType |-> "none"]

IdleMemCall == [pc |-> "idle", conversationId |-> NoConversation,
                allMessages |-> <<>>, summary |-> NoSummary,
                summaryFailed |-> FALSE, memory |-> NoMemory]

MemoryInit == memcall = IdleMemCall

\* the callers of OpenAIService
Callers == {"k1", "k2"}

IdleCall == [pc |-> "idle", service |-> "", op |-> "", retries |-> 0,
             attempt |-> 0, waited |-> <<>>]

ApiInit == calls = [k \in Callers |-> IdleCall]

\* the callers of GeneratedFilesService
FileCallers == {"j1", "j2"}

NoFileId == 0

IdleFileCall == [op |-> "idle", pc |-> "idle", call |-> 0, fileName |-> "",
                 fileId |-> NoFileId, existing |-> NoFileId, newVersion |-> 0,
                 result |-> NoFileId]

FilesInit ==
  /\ generatedFile = {}
  /\ generatedFileVersion = {}
  /\ fcall = [j \in FileCallers |-> IdleFileCall]
  /\ generation = <<>>
  /\ fcalls = 0
  /\ storage = {}

NoName == [pc |-> "idle", displayName |-> <<>>, fileName |-> <<>>, again |-> <<>>]

\* no load running: tempFile tells whether the temporary file of the load is
\* on disk, leftovers counts the temporary files of earlier loads still there
IdleLoader == [pc |-> "idle", extension |-> "", exit |-> "none", tempFile |-> FALSE,
               unlinkCalled |-> FALSE, unlinkFailed |-> FALSE, writeFailed |-> FALSE,
               loads |-> 0, leftovers |-> 0]

AuxInit ==
  /\ naming = NoName
  /\ loader = IdleLoader
  /\ deletedProjects = {}
  /\ foreign = {}

\* the rest of the service at rest
OtherInit == ChatInit /\ MemoryInit /\ ApiInit /\ FilesInit /\ AuxInit

IdleTask == [op |-> "idle", pc |-> "idle", documentId |-> "", projectId |-> "",
             textContent |-> 0, collectionName |-> Null,
             found |-> <<>>, queue |-> <<>>, results |-> <<>>,
             result |-> NoResult, reply |-> NoReply, prev |-> NoPrev]

Init ==
  /\ project = [p \in Projects |-> [qdrantCollectionId |-> Null]]
  /\ document = [d \in Documents |-> NoRow]
  /\ s3 = [d \in Documents |-> NoFile]
  /\ collections = {}
  /\ points = {}
  /\ task = [t \in Tasks |-> IdleTask]
  /\ active = Tasks
  /\ requests = 0
  /\ OtherInit

\* the same program serving one request at a time
InitSeq ==
  /\ project = [p \in Projects |-> [qdrantCollectionId |-> Null]]
  /\ document = [d \in Documents |-> NoRow]
  /\ s3 = [d \in Documents |-> NoFile]
  /\ collections = {}
  /\ points = {}
  /\ task = [t \in Tasks |-> IdleTask]
  /\ active = {"t1"}
  /\ requests = 0
  /\ OtherInit

\* a collection name that differs from call to call, as a name built from the
\* project id and a timestamp would
CollectionNameTimestamped(p) == <<"project", p, Cardinality(collections)>>

\* QdrantService.createCollection: the name of a project's collection,
\* `project_${projectId}`
CollectionName(p) == <<"project", p>>

(***************************************************************************)
(* Upload                                                                  *)
(***************************************************************************)
\* row ids are fresh: the rows are named in the order of their creation
IsNextId(d) ==
  \A i \in 1..Len(DocOrder) :
     DocOrder[i] = d => \A j \in 1..(i - 1) : document[DocOrder[j]].status # "new"

\* DocumentController.uploadDocuments, one file: the bytes go to object
\* storage, the loader extracts the text and the row is created with it; a
\* file the loader rejects creates no row.
UploadDocument(d, p, f) ==
  /\ document[d].status = "new"
  /\ IsNextId(d)
  /\ LoadDocument(f).ok
  /\ s3' = [s3 EXCEPT ![d] = f]
  /\ document' = [document EXCEPT ![d] =
       [status |-> "live", projectId |-> p,
        textContent |-> LoadDocument(f).text, processedAt |-> FALSE]]
  /\ UNCHANGED <<project, collections, points, task, active, requests, otherVars>>

(***************************************************************************)
(* Helpers                                                                 *)
(***************************************************************************)
\* document.project.qdrantCollectionId of findUnique({include: {project: true}})
HandleOf(d) == project[document[d].projectId].qdrantCollectionId

\* error.message of a failed call to the database, the object storage, the
\* vector store or the model provider: the text is the collaborator's
ExternalFailure == "external failure"

\* the catch block of processDocument / reprocessDocument
FailureResult(d, msg) ==
  [documentId |-> d, chunksProcessed |-> 0, collectionName |-> Null,
   success |-> FALSE, error |-> msg]

\* a loop that keeps only the documents that were processed
PushResultIfSuccess(results, r) == IF r.success THEN Append(results, r) ELSE results

\* processProject: results.push(result)
PushResult(results, r) == Append(results, r)

\* the locals of one processDocument call, cleared
ClearLocals(tk) ==
  [tk EXCEPT !.projectId = IF tk.op = "project" THEN tk.projectId ELSE "",
             !.textContent = 0, !.collectionName = Null]

\* processDocument returns r: to the caller of the service, or into the loop
\* of processProject, which goes on with the next document
ReturnFromProcess(tk, r) ==
  IF tk.op = "project"
    THEN LET rs == PushResult(tk.results, r) IN
         IF tk.queue = <<>>
           THEN [ClearLocals(tk) EXCEPT !.results = rs, !.documentId = "", !.pc = "done"]
           ELSE [ClearLocals(tk) EXCEPT !.results = rs, !.documentId = Head(tk.queue),
                                        !.queue = Tail(tk.queue), !.pc = "pd_find"]
    ELSE [ClearLocals(tk) EXCEPT !.result = r, !.pc = "done"]

\* the first awaited call after the text is known
AfterText(collectionName) == IF collectionName = Null THEN "pd_create" ELSE "pd_embed"

\* point ids are <<document, upsert, chunk>>; the upserts of d still stored
UsedBatches(d) == {pt.id[2] : pt \in {q \in points : q.documentId = d}}

HasFreshBatch(d) == \E b \in 1..MaxBatches : b \notin UsedBatches(d)

\* uuidv4(): identifiers that no stored point carries
FreshBatch(d) == CHOOSE b \in 1..MaxBatches :
                    b \notin UsedBatches(d) /\ \A c \in 1..(b - 1) : c \in UsedBatches(d)

\* QdrantService.storeDocumentChunks: the points of one upsert
NewPoints(coll, d, text) ==
  { [id |-> <<d, FreshBatch(d), i>>, collection |-> coll, documentId |-> d,
     text |-> text, chunkIndex |-> i - 1] : i \in 1..Len(splitText(text)) }

\* QdrantService.deleteDocumentChunks: the filter on payload.documentId
PointsOfDocument(coll, d) ==
  {pt \in points : pt.collection = coll /\ pt.documentId = d}

(***************************************************************************)
(* RAGService.processDocument                                              *)
(***************************************************************************)
\* a client issues a request on a free task
Accept(t) ==
  /\ t \in active
  /\ task[t].pc = "idle"
  /\ requests < MaxRequests
  /\ requests' = requests + 1

StartProcessDocument(t, d) ==
  /\ Accept(t)
  /\ task' = [task EXCEPT ![t] = [IdleTask EXCEPT !.op = "ingest", !.pc = "pd_find",
                                    !.documentId = d, !.prev = task[t].prev]]
  /\ UNCHANGED <<project, document, s3, collections, points, active, otherVars>>

\* processDocument without the early return on processedAt
PdFindWithoutProcessedCheck(t) ==
  LET tk == task[t]
      d  == tk.documentId
  IN
  /\ tk.pc = "pd_find"
  /\ \E ok \in BOOLEAN :
       task' = [task EXCEPT ![t] =
         IF ~ok THEN ReturnFromProcess(tk, FailureResult(d, ExternalFailure))
         ELSE IF document[d].status # "live"
           THEN ReturnFromProcess(tk, FailureResult(d, "Document not found"))
         ELSE [tk EXCEPT !.projectId = document[d].projectId,
                         !.textContent = document[d].textContent,
                         !.collectionName = HandleOf(d),
                         !.pc = IF document[d].textContent = 0
                                  THEN "pd_s3get" ELSE AfterText(HandleOf(d))]]
  /\ UNCHANGED <<project, document, s3, collections, points, active, requests, otherVars>>

\* prisma.document.findUnique, the not-found and the already-processed exits
PdFind(t) ==
  LET tk == task[t]
      d  == tk.documentId
  IN
  /\ tk.pc = "pd_find"
  /\ \E ok \in BOOLEAN :
       task' = [task EXCEPT ![t] =
         IF ~ok THEN ReturnFromProcess(tk, FailureResult(d, ExternalFailure))
         ELSE IF document[d].status # "live"
           THEN ReturnFromProcess(tk, FailureResult(d, "Document not found"))
         ELSE IF document[d].processedAt
           THEN ReturnFromProcess(tk,
                  [documentId |-> d, chunksProcessed |-> 0,
                   collectionName |-> HandleOf(d),
                   success |-> TRUE, error |-> "Document already processed"])
         ELSE [tk EXCEPT !.projectId = document[d].projectId,
                         !.textContent = document[d].textContent,
                         !.collectionName = HandleOf(d),
                         !.pc = IF document[d].textContent = 0
                                  THEN "pd_s3get" ELSE AfterText(HandleOf(d))]]
  /\ UNCHANGED <<project, document, s3, collections, points, active, requests, otherVars>>

\* S3Service.getFileContent and LangChainDocumentProcessor.processDocument
PdExtract(t) ==
  LET tk == task[t]
      d  == tk.documentId
  IN
  /\ tk.pc = "pd_s3get"
  /\ \E ok \in BOOLEAN :
       task' = [task EXCEPT ![t] =
         IF ~ok \/ s3[d] = NoFile
           THEN ReturnFromProcess(tk, FailureResult(d, ExternalFailure))
         ELSE IF ~LoadDocument(s3[d]).ok
           THEN ReturnFromProcess(tk, FailureResult(d, "LangChain processing failed"))
         ELSE [tk EXCEPT !.textContent = LoadDocument(s3[d]).text, !.pc = "pd_savetext"]]
  /\ UNCHANGED <<project, document, s3, collections, points, active, requests, otherVars>>

\* prisma.document.update({data: {textContent}})
PdSaveText(t) ==
  LET tk == task[t]
      d  == tk.documentId
  IN
  /\ tk.pc = "pd_savetext"
  /\ \E ok \in BOOLEAN :
       IF ok /\ document[d].status = "live"
         THEN /\ document' = [document EXCEPT ![d].textContent = tk.textContent]
              /\ task' = [task EXCEPT ![t].pc = AfterText(tk.collectionName)]
         ELSE /\ document' = document
              /\ task' = [task EXCEPT ![t] =
                   ReturnFromProcess(tk, FailureResult(d, ExternalFailure))]
  /\ UNCHANGED <<project, s3, collections, points, active, requests, otherVars>>

\* QdrantService.createCollection: "already exists" is answered with the name
PdCreateCollection(t) ==
  LET tk   == task[t]
      d    == tk.documentId
      name == CollectionName(tk.projectId)
  IN
  /\ tk.pc = "pd_create"
  /\ \E ok \in BOOLEAN :
       IF ok
         THEN /\ collections' = collections \cup {name}
              /\ task' = [task EXCEPT ![t].collectionName = name, ![t].pc = "pd_sethandle"]
         ELSE /\ collections' = collections
              /\ task' = [task EXCEPT ![t] =
                   ReturnFromProcess(tk, FailureResult(d, ExternalFailure))]
  /\ UNCHANGED <<project, document, s3, points, active, requests, otherVars>>

\* prisma.project.update({data: {qdrantCollectionId: collectionName}})
PdSetHandle(t) ==
  LET tk == task[t]
      d  == tk.documentId
  IN
  /\ tk.pc = "pd_sethandle"
  /\ \E ok \in BOOLEAN :
       IF ok
         THEN /\ project' = [project EXCEPT ![tk.projectId].qdrantCollectionId = tk.collectionName]
              /\ task' = [task EXCEPT ![t].pc = "pd_embed"]
         ELSE /\ project' = project
              /\ task' = [task EXCEPT ![t] =
                   ReturnFromProcess(tk, FailureResult(d, ExternalFailure))]
  /\ UNCHANGED <<document, s3, collections, points, active, requests, otherVars>>

\* LangChainDocumentProcessor.splitText and openaiService.generateEmbeddings
PdEmbed(t) ==
  LET tk == task[t]
      d  == tk.documentId
  IN
  /\ tk.pc = "pd_embed"
  /\ \E ok \in BOOLEAN :
       task' = [task EXCEPT ![t] =
         IF Len(splitText(tk.textContent)) = 0
           THEN ReturnFromProcess(tk,
                  FailureResult(d, "No text chunks could be created from document"))
         ELSE IF ~ok
           THEN ReturnFromProcess(tk, FailureResult(d, ExternalFailure))
         ELSE [tk EXCEPT !.pc = "pd_store"]]
  /\ UNCHANGED <<project, document, s3, collections, points, active, requests, otherVars>>

\* QdrantService.storeDocumentChunks: one upsert of all chunks
PdStore(t) ==
  LET tk == task[t]
      d  == tk.documentId
  IN
  /\ tk.pc = "pd_store"
  /\ HasFreshBatch(d)
  /\ \E ok \in BOOLEAN :
       IF ok /\ tk.collectionName \in collections
         THEN /\ points' = points \cup NewPoints(tk.collectionName, d, tk.textContent)
              /\ task' = [task EXCEPT ![t].pc = "pd_mark"]
         ELSE /\ points' = points
              /\ task' = [task EXCEPT ![t] =
                   ReturnFromProcess(tk, FailureResult(d, ExternalFailure))]
  /\ UNCHANGED <<project, document, s3, collections, active, requests, otherVars>>

\* prisma.document.update({data: {processedAt: new Date()}}) and the result
PdMarkProcessed(t) ==
  LET tk == task[t]
      d  == tk.documentId
  IN
  /\ tk.pc = "pd_mark"
  /\ \E ok \in BOOLEAN :
       IF ok /\ document[d].status = "live"
         THEN /\ document' = [document EXCEPT ![d].processedAt = TRUE]
              /\ task' = [task EXCEPT ![t] =
                   ReturnFromProcess(tk,
                     [documentId |-> d,
                      chunksProcessed |-> Len(splitText(tk.textContent)),
                      collectionName |-> tk.collectionName,
                      success |-> TRUE, error |-> ""])]
         ELSE /\ document' = document
              /\ task' = [task EXCEPT ![t] =
                   ReturnFromProcess(tk, FailureResult(d, ExternalFailure))]
  /\ UNCHANGED <<project, s3, collections, points, active, requests, otherVars>>

(***************************************************************************)
(* RAGService.reprocessDocument                                            *)
(***************************************************************************)
StartReprocessDocument(t, d) ==
  /\ Accept(t)
  /\ task' = [task EXCEPT ![t] = [IdleTask EXCEPT !.op = "reingest", !.pc = "rp_find",
                                    !.documentId = d, !.prev = task[t].prev]]
  /\ UNCHANGED <<project, document, s3, collections, points, active, otherVars>>

\* prisma.document.findUnique
RpFind(t) ==
  LET tk == task[t]
      d  == tk.documentId
  IN
  /\ tk.pc = "rp_find"
  /\ \E ok \in BOOLEAN :
       task' = [task EXCEPT ![t] =
         IF ~ok THEN ReturnFromProcess(tk, FailureResult(d, ExternalFailure))
         ELSE IF document[d].status # "live"
           THEN ReturnFromProcess(tk, FailureResult(d, "Document not found"))
         ELSE [tk EXCEPT !.projectId = document[d].projectId,
                         !.collectionName = HandleOf(d),
                         !.pc = IF HandleOf(d) = Null THEN "rp_reset" ELSE "rp_delete"]]
  /\ UNCHANGED <<project, document, s3, collections, points, active, requests, otherVars>>

\* qdrantService.deleteDocumentChunks inside try/catch: a failure is only
\* logged ("Could not delete existing chunks") and the reprocess goes on
RpDeleteChunks(t) ==
  LET tk == task[t]
      d  == tk.documentId
  IN
  /\ tk.pc = "rp_delete"
  /\ \E ok \in BOOLEAN :
       points' = IF ok /\ tk.collectionName \in collections
                   THEN points \ PointsOfDocument(tk.collectionName, d)
                   ELSE points
  /\ task' = [task EXCEPT ![t].pc = "rp_reset"]
  /\ UNCHANGED <<project, document, s3, collections, active, requests, otherVars>>

\* a reset that also forgets the project's collection
RpResetClearsHandle(t) ==
  LET tk == task[t]
      d  == tk.documentId
  IN
  /\ tk.pc = "rp_reset"
  /\ \E ok \in BOOLEAN :
       IF ok /\ document[d].status = "live"
         THEN /\ document' = [document EXCEPT ![d].processedAt = FALSE]
              /\ project' = [project EXCEPT ![tk.projectId].qdrantCollectionId = Null]
              /\ task' = [task EXCEPT ![t] = [ClearLocals(tk) EXCEPT !.pc = "pd_find"]]
         ELSE /\ document' = document
              /\ project' = project
              /\ task' = [task EXCEPT ![t] =
                   ReturnFromProcess(tk, FailureResult(d, ExternalFailure))]
  /\ UNCHANGED <<s3, collections, points, active, requests, otherVars>>

\* prisma.document.update({data: {processedAt: null}}), then processDocument
RpReset(t) ==
  LET tk == task[t]
      d  == tk.documentId
  IN
  /\ tk.pc = "rp_reset"
  /\ \E ok \in BOOLEAN :
       IF ok /\ document[d].status = "live"
         THEN /\ document' = [document EXCEPT ![d].processedAt = FALSE]
              /\ task' = [task EXCEPT ![t] = [ClearLocals(tk) EXCEPT !.pc = "pd_find"]]
         ELSE /\ document' = document
              /\ task' = [task EXCEPT ![t] =
                   ReturnFromProcess(tk, FailureResult(d, ExternalFailure))]
  /\ UNCHANGED <<project, s3, collections, points, active, requests, otherVars>>

(***************************************************************************)
(* RAGService.processProject                                               *)
(***************************************************************************)
StartProcessProject(t, p) ==
  /\ Accept(t)
  /\ task' = [task EXCEPT ![t] = [IdleTask EXCEPT !.op = "project", !.pc = "pp_find",
                                    !.projectId = p, !.prev = task[t].prev]]
  /\ UNCHANGED <<project, document, s3, collections, points, active, otherVars>>

\* prisma.document.findMany({where: {projectId, processedAt: null}})
Unprocessed(p) ==
  SelectSeq(DocOrder, LAMBDA d : /\ document[d].status = "live"
                                  /\ document[d].projectId = p
                                  /\ ~document[d].processedAt)

\* findMany, then the first turn of the loop, or the empty result
PpFind(t) ==
  LET tk == task[t]
      ds == Unprocessed(tk.projectId)
  IN
  /\ tk.pc = "pp_find"
  /\ task' = [task EXCEPT ![t] =
       IF ds = <<>>
         THEN [tk EXCEPT !.pc = "done"]
         ELSE [tk EXCEPT !.found = ds, !.documentId = Head(ds),
                         !.queue = Tail(ds), !.pc = "pd_find"]]
  /\ UNCHANGED <<project, document, s3, collections, points, active, requests, otherVars>>

(***************************************************************************)
(* EnhancedDocumentController.deleteDocument, RAGService.deleteDocument    *)
(***************************************************************************)
StartDeleteDocument(t, d) ==
  /\ Accept(t)
  /\ task' = [task EXCEPT ![t] = [IdleTask EXCEPT !.op = "delete", !.pc = "dl_find",
                                    !.documentId = d, !.prev = task[t].prev]]
  /\ UNCHANGED <<project, document, s3, collections, points, active, otherVars>>

\* DocumentController.deleteDocument is called: the delete route that does
\* not go through RAGService
StartRemoveDocument(t, d) ==
  /\ Accept(t)
  /\ task' = [task EXCEPT ![t] = [IdleTask EXCEPT !.op = "remove", !.pc = "dl_find",
                                    !.documentId = d, !.prev = task[t].prev]]
  /\ UNCHANGED <<project, document, s3, collections, points, active, otherVars>>

\* findFirst of the controller and findUnique of the service
DlFind(t) ==
  LET tk == task[t]
      d  == tk.documentId
  IN
  /\ tk.pc = "dl_find"
  /\ task' = [task EXCEPT ![t] =
       IF document[d].status # "live"
         THEN [tk EXCEPT !.result = FailureResult(d, "Document not found"), !.pc = "done"]
         ELSE [tk EXCEPT !.projectId = document[d].projectId,
                         !.collectionName = HandleOf(d),
                         !.pc = IF tk.op = "remove" \/ HandleOf(d) = Null
                                THEN "dl_s3" ELSE "dl_chunks"]]
  /\ UNCHANGED <<project, document, s3, collections, points, active, requests, otherVars>>

\* qdrantService.deleteDocumentChunks inside try/catch
DlDeleteChunks(t) ==
  LET tk == task[t]
      d  == tk.documentId
  IN
  /\ tk.pc = "dl_chunks"
  /\ \E ok \in BOOLEAN :
       points' = IF ok /\ tk.collectionName \in collections
                   THEN points \ PointsOfDocument(tk.collectionName, d)
                   ELSE points
  /\ task' = [task EXCEPT ![t].pc = "dl_s3"]
  /\ UNCHANGED <<project, document, s3, collections, active, requests, otherVars>>

\* S3Service.deleteFile: inside try/catch in RAGService.deleteDocument, while
\* DocumentController.deleteDocument ends with the error
DlDeleteFile(t) ==
  LET tk == task[t]
      d  == tk.documentId
  IN
  /\ tk.pc = "dl_s3"
  /\ \E ok \in BOOLEAN :
       /\ s3' = IF ok THEN [s3 EXCEPT ![d] = NoFile] ELSE s3
       /\ task' = [task EXCEPT ![t] =
            IF tk.op = "remove" /\ ~ok
              THEN [ClearLocals(tk) EXCEPT !.pc = "done",
                                           !.result = FailureResult(d, ExternalFailure)]
              ELSE [tk EXCEPT !.pc = "dl_row"]]
  /\ UNCHANGED <<project, document, collections, points, active, requests, otherVars>>

\* prisma.document.delete of the controller and the 200 response
DlDeleteRow(t) ==
  LET tk == task[t]
      d  == tk.documentId
  IN
  /\ tk.pc = "dl_row"
  /\ IF document[d].status = "live"
       THEN /\ document' = [document EXCEPT ![d] = [NoRow EXCEPT !.status = "deleted"]]
            /\ task' = [task EXCEPT ![t] =
                 [ClearLocals(tk) EXCEPT !.pc = "done",
                    !.result = [documentId |-> d, chunksProcessed |-> 0,
                                collectionName |-> Null, success |-> TRUE, error |-> ""]]]
       ELSE /\ document' = document
            /\ task' = [task EXCEPT ![t] =
                 [ClearLocals(tk) EXCEPT !.pc = "done",
                    !.result = FailureResult(d, ExternalFailure)]]
  /\ UNCHANGED <<project, s3, collections, points, active, requests, otherVars>>

(***************************************************************************)
(* Object storage: the bytes behind a key are replaced                     *)
(***************************************************************************)
\* upload(buffer, key) of the storage collaborator on the key of a stored
\* document, between two requests
ReplaceRawBytes(d, f) ==
  /\ \A t \in Tasks : task[t].pc = "idle"
  /\ document[d].status = "live"
  /\ s3[d] # NoFile
  /\ LoadDocument(f).ok
  /\ LoadDocument(f).text # LoadDocument(s3[d]).text
  /\ s3' = [s3 EXCEPT ![d] = f]
  /\ UNCHANGED <<project, document, collections, points, task, active, requests, otherVars>>

(***************************************************************************)
(* Queries: RAGService.queryDocuments, queryDocumentsWithMemory and        *)
(* WebSocketService.streamRAGResponse                                      *)
(***************************************************************************)
QueryKinds == {"query", "memory", "stream"}

StartQuery(t, kind, p) ==
  /\ Accept(t)
  /\ task' = [task EXCEPT ![t] = [IdleTask EXCEPT !.op = kind, !.pc = "q_load",
                                    !.projectId = p, !.prev = task[t].prev]]
  /\ UNCHANGED <<project, document, s3, collections, points, active, otherVars>>

\* prisma.project.findUnique and the check of qdrantCollectionId
QueryLoadProject(t) ==
  LET tk == task[t] IN
  /\ tk.pc = "q_load"
  /\ task' = [task EXCEPT ![t] =
       IF project[tk.projectId].qdrantCollectionId = Null
         THEN [tk EXCEPT !.pc = "done",
                 !.reply = [kind |-> "error",
                            error |-> "Project not found or no documents processed",
                            answer |-> "", sources |-> 0]]
         ELSE [tk EXCEPT !.collectionName = project[tk.projectId].qdrantCollectionId,
                         !.pc = "q_search"]]
  /\ UNCHANGED <<project, document, s3, collections, points, active, requests, otherVars>>

\* the number of chunks searchSimilarChunks may return: none above the
\* threshold, or up to `limit` of the points of the collection
SearchHits(coll) ==
  LET n == Cardinality({pt \in points : pt.collection = coll})
  IN  {0} \cup {IF n > maxChunks THEN maxChunks ELSE n}

\* generateQueryEmbedding, searchSimilarChunks and the chat completion
QueryAnswer(t) ==
  LET tk == task[t] IN
  /\ tk.pc = "q_search"
  /\ \E ok \in BOOLEAN, hits \in SearchHits(tk.collectionName) :
       task' = [task EXCEPT ![t] =
         [ClearLocals(tk) EXCEPT !.pc = "done", !.reply =
            IF ~ok
              THEN [kind |-> "error", error |-> ExternalFailure,
                    answer |-> "", sources |-> 0]
            ELSE IF hits = 0 /\ tk.op = "query"
              THEN [kind |-> "answer", error |-> "",
                    answer |-> "no relevant information", sources |-> 0]
            ELSE [kind |-> "answer", error |-> "", answer |-> "model", sources |-> hits]]]
  /\ UNCHANGED <<project, document, s3, collections, points, active, requests, otherVars>>

\* the response is sent; the task is free for the next request
Respond(t) ==
  /\ task[t].pc = "done"
  /\ task' = [task EXCEPT ![t] =
       [IdleTask EXCEPT !.prev =
          IF task[t].op = "reingest" /\ Cardinality(active) = 1
            THEN [op |-> "reingest", documentId |-> task[t].result.documentId,
                  success |-> task[t].result.success]
            ELSE NoPrev]]
  /\ UNCHANGED <<project, document, s3, collections, points, active, requests, otherVars>>

(***************************************************************************)
(* Streaming session: WebSocketService chat:start, processChatStream and   *)
(* streamRAGResponse                                                       *)
(***************************************************************************)
\* number of chat requests the clients issue in one run
MaxStarts == 2

\* number of content deltas the model provider streams for one response
MaxStreamChunks == 1

\* socket.emit(event, ...) on the socket of s
Emit(s, events) == [emitted EXCEPT ![s] = @ \o events]

\* a table read back newest first
PrependMessage(log, m) == <<m>> \o log

\* prisma.message.create: the row is added at the end of the table
AppendMessage(log, m) == Append(log, m)

\* a message row; request names the chat request that wrote it
Message(c, role, request, content) ==
  [conversationId |-> c, role |-> role, request |-> request, content |-> content]

\* prisma.conversation.create: a fresh id
HasFreshConversation == \E i \in 1..Len(ConvOrder) : ConvOrder[i] \notin conversations

FreshConversation ==
  ConvOrder[CHOOSE i \in 1..Len(ConvOrder) :
               /\ ConvOrder[i] \notin conversations
               /\ \A j \in 1..(i - 1) : ConvOrder[j] \in conversations]

\* catch blocks that emit chat:error and throw the error on to the next catch
WsFailRethrows(s) ==
  /\ session' = [session EXCEPT ![s].pc = "failed"]
  /\ emitted' = Emit(s, <<"error", "error">>)

\* the catch blocks: socket.emit('chat:error', ...) and the handler ends
WsFail(s) ==
  /\ session' = [session EXCEPT ![s].pc = "failed"]
  /\ emitted' = Emit(s, <<"error">>)

\* a new request runs in the first handler that is not busy (the handlers are
\* interchangeable)
FirstIdle(s) ==
  /\ session[s].pc = "idle"
  /\ \A u \in Sessions : session[u].pc = "idle" => (s = "s1" \/ u # "s1")

\* a client sends chat:start on a connected socket, with the id of an existing
\* conversation or without one
WsStart(s, p, c) ==
  /\ FirstIdle(s)
  /\ connected[s]
  /\ starts < MaxStarts
  /\ c \in conversations \cup {NoConversation}
  /\ starts' = starts + 1
  /\ session' = [session EXCEPT ![s] =
       [IdleSession EXCEPT !.kind = "ws", !.pc = "ws_validate", !.projectId = p,
                           !.conversationId = c, !.request = starts + 1]]
  /\ emitted' = [emitted EXCEPT ![s] = <<"status:validating">>]
  /\ UNCHANGED <<conversations, messages, connected, nonChatVars>>

\* prisma.project.findFirst of the handler; processChatStream starts
WsValidate(s) ==
  /\ session[s].pc = "ws_validate"
  /\ \E ok \in BOOLEAN :
       IF ok
         THEN IF session[s].conversationId = NoConversation
                THEN /\ session' = [session EXCEPT ![s].pc = "ws_createconv"]
                     /\ emitted' = Emit(s, <<"status:conversation">>)
                ELSE /\ session' = [session EXCEPT ![s].pc = "ws_saveuser"]
                     /\ emitted' = Emit(s, <<"status:conversation", "status:saving">>)
         ELSE WsFail(s)
  /\ UNCHANGED <<conversations, messages, connected, starts, nonChatVars>>

\* prisma.conversation.create
WsCreateConversation(s) ==
  /\ session[s].pc = "ws_createconv"
  /\ \E ok \in BOOLEAN :
       IF ok /\ HasFreshConversation
         THEN /\ conversations' = conversations \cup {FreshConversation}
              /\ session' = [session EXCEPT ![s].conversationId = FreshConversation,
                                            ![s].created = TRUE,
                                            ![s].pc = "ws_saveuser"]
              /\ emitted' = Emit(s, <<"conversation_created", "status:saving">>)
         ELSE /\ conversations' = conversations
              /\ WsFail(s)
  /\ UNCHANGED <<messages, connected, starts, nonChatVars>>

\* prisma.message.create of the user message; streamRAGResponse starts
WsSaveUserMessage(s) ==
  /\ session[s].pc = "ws_saveuser"
  /\ \E ok \in BOOLEAN :
       IF ok
         THEN /\ messages' = AppendMessage(messages,
                   Message(session[s].conversationId, "USER", session[s].request, 0))
              /\ session' = [session EXCEPT ![s].pc = "ws_project"]
              /\ emitted' = Emit(s, <<"user_message", "status:memory">>)
         ELSE /\ messages' = messages
              /\ WsFail(s)
  /\ UNCHANGED <<conversations, connected, starts, nonChatVars>>

\* prisma.project.findUnique and the check of qdrantCollectionId
WsLoadProject(s) ==
  /\ session[s].pc = "ws_project"
  /\ \E ok \in BOOLEAN :
       IF ok /\ project[session[s].projectId].qdrantCollectionId # Null
         THEN /\ session' = [session EXCEPT ![s].pc = "ws_memory"]
              /\ emitted' = Emit(s, <<"status:memory">>)
         ELSE WsFail(s)
  /\ UNCHANGED <<conversations, messages, connected, starts, nonChatVars>>

\* conversationMemoryService.getConversationMemory: it never rejects
WsMemory(s) ==
  /\ session[s].pc = "ws_memory"
  /\ session' = [session EXCEPT ![s].pc = "ws_embed"]
  /\ emitted' = Emit(s, <<"status:embedding">>)
  /\ UNCHANGED <<conversations, messages, connected, starts, nonChatVars>>

\* openaiService.generateQueryEmbedding
WsEmbed(s) ==
  /\ session[s].pc = "ws_embed"
  /\ \E ok \in BOOLEAN :
       IF ok
         THEN /\ session' = [session EXCEPT ![s].pc = "ws_search"]
              /\ emitted' = Emit(s, <<"status:search">>)
         ELSE WsFail(s)
  /\ UNCHANGED <<conversations, messages, connected, starts, nonChatVars>>

\* qdrantService.searchSimilarChunks
WsSearch(s) ==
  /\ session[s].pc = "ws_search"
  /\ \E ok \in BOOLEAN :
       IF ok
         THEN /\ session' = [session EXCEPT ![s].pc = "ws_open"]
              /\ emitted' = Emit(s, <<"status:generating", "stream_start">>)
         ELSE WsFail(s)
  /\ UNCHANGED <<conversations, messages, connected, starts, nonChatVars>>

\* openaiService.generateStreamingChatCompletion
WsOpenStream(s) ==
  /\ session[s].pc = "ws_open"
  /\ \E ok \in BOOLEAN :
       IF ok
         THEN /\ session' = [session EXCEPT ![s].pc = "ws_stream",
                                            ![s].response = "streaming"]
              /\ emitted' = emitted
         ELSE WsFail(s)
  /\ UNCHANGED <<conversations, messages, connected, starts, nonChatVars>>

\* a loop that keeps what it received when the iterator rejects
WsStreamNextKeepsPartial(s) ==
  /\ session[s].pc = "ws_stream"
  /\ \E outcome \in {"chunk", "end", "error"} :
       CASE outcome = "chunk" ->
              /\ session[s].received < MaxStreamChunks
              /\ session' = [session EXCEPT ![s].received = @ + 1]
              /\ emitted' = Emit(s, <<"stream_chunk">>)
         [] outcome = "end" ->
              /\ session' = [session EXCEPT ![s].pc = "ws_save",
                                            ![s].response = "complete"]
              /\ emitted' = Emit(s, <<"status:saving">>)
         [] outcome = "error" ->
              /\ session' = [session EXCEPT ![s].pc = "ws_save"]
              /\ emitted' = Emit(s, <<"status:saving">>)
  /\ UNCHANGED <<conversations, messages, connected, starts, nonChatVars>>

\* one turn of `for await (const chunk of stream)`: a content delta, the end
\* of the stream, or the iterator rejects
WsStreamNext(s) ==
  /\ session[s].pc = "ws_stream"
  /\ \E outcome \in {"chunk", "end", "error"} :
       CASE outcome = "chunk" ->
              /\ session[s].received < MaxStreamChunks
              /\ session' = [session EXCEPT ![s].received = @ + 1]
              /\ emitted' = Emit(s, <<"stream_chunk">>)
         [] outcome = "end" ->
              /\ session' = [session EXCEPT ![s].pc = "ws_save",
                                            ![s].response = "complete"]
              /\ emitted' = Emit(s, <<"status:saving">>)
         [] outcome = "error" -> WsFail(s)
  /\ UNCHANGED <<conversations, messages, connected, starts, nonChatVars>>

\* prisma.message.create of the assistant message, stream-complete and the
\* final status
WsSaveAssistantMessage(s) ==
  /\ session[s].pc = "ws_save"
  /\ \E ok \in BOOLEAN :
       IF ok
         THEN /\ messages' = AppendMessage(messages,
                   Message(session[s].conversationId, "ASSISTANT",
                           session[s].request, session[s].received))
              /\ session' = [session EXCEPT ![s].pc = "completed"]
              /\ emitted' = Emit(s, <<"stream_complete", "status:completed">>)
         ELSE /\ messages' = messages
              /\ WsFail(s)
  /\ UNCHANGED <<conversations, connected, starts, nonChatVars>>

\* the 'disconnect' handler: connectedUsers.delete(socket.id)
Disconnect(s) ==
  /\ connected[s]
  /\ session[s].kind = "ws"
  /\ connected' = [connected EXCEPT ![s] = FALSE]
  /\ UNCHANGED <<conversations, messages, session, emitted, starts, nonChatVars>>

\* the request is over: the response is sent or the handler has returned,
\* and a client may connect anew
EndSession(s) ==
  /\ session[s].pc \in {"completed", "failed"}
  /\ session' = [session EXCEPT ![s] = IdleSession]
  /\ emitted' = [emitted EXCEPT ![s] = <<>>]
  /\ connected' = [connected EXCEPT ![s] = TRUE]
  /\ UNCHANGED <<conversations, messages, starts, nonChatVars>>

(***************************************************************************)
(* ChatController.sendMessage and ChatController.newConversationWithMessage *)
(***************************************************************************)
\* res.status(404) or the catch block's res.status(500)
RestFail(s) == session' = [session EXCEPT ![s].pc = "failed"]

\* POST of a message to an existing conversation ("send") or of the first
\* message of a new one ("new")
RestStart(s, kind, p, c) ==
  /\ FirstIdle(s)
  /\ starts < MaxStarts
  /\ \/ kind = "send" /\ c \in conversations
     \/ kind = "new" /\ c = NoConversation
  /\ starts' = starts + 1
  /\ session' = [session EXCEPT ![s] =
       [IdleSession EXCEPT !.kind = kind, !.pc = "rs_find", !.projectId = p,
                           !.conversationId = c, !.request = starts + 1]]
  /\ UNCHANGED <<conversations, messages, emitted, connected, nonChatVars>>

\* prisma.conversation.findFirst by id and project.professorId (send) or
\* prisma.project.findFirst (new)
RestFind(s) ==
  /\ session[s].pc = "rs_find"
  /\ \E ok \in BOOLEAN :
       IF ok /\ session[s].conversationId \notin foreign
         THEN session' = [session EXCEPT ![s].pc =
                IF session[s].kind = "new" THEN "rs_createconv" ELSE "rs_saveuser"]
         ELSE RestFail(s)
  /\ UNCHANGED <<conversations, messages, emitted, connected, starts, nonChatVars>>

\* prisma.conversation.create of newConversationWithMessage
RestCreateConversation(s) ==
  /\ session[s].pc = "rs_createconv"
  /\ \E ok \in BOOLEAN :
       IF ok /\ HasFreshConversation
         THEN /\ conversations' = conversations \cup {FreshConversation}
              /\ session' = [session EXCEPT ![s].conversationId = FreshConversation,
                                            ![s].created = TRUE,
                                            ![s].pc = "rs_saveuser"]
         ELSE /\ conversations' = conversations
              /\ RestFail(s)
  /\ UNCHANGED <<messages, emitted, connected, starts, nonChatVars>>

\* prisma.message.create of the user message
RestSaveUserMessage(s) ==
  /\ session[s].pc = "rs_saveuser"
  /\ \E ok \in BOOLEAN :
       IF ok
         THEN /\ messages' = AppendMessage(messages,
                   Message(session[s].conversationId, "USER", session[s].request, 0))
              /\ session' = [session EXCEPT ![s].pc = "rs_query"]
         ELSE /\ messages' = messages
              /\ RestFail(s)
  /\ UNCHANGED <<conversations, emitted, connected, starts, nonChatVars>>

\* ragService.queryDocumentsWithMemory (send) or ragService.queryDocuments
\* (new): both rethrow a failed lookup, embedding, search or completion
RestQuery(s) ==
  /\ session[s].pc = "rs_query"
  /\ \E ok \in BOOLEAN :
       IF ok /\ project[session[s].projectId].qdrantCollectionId # Null
         THEN session' = [session EXCEPT ![s].pc = "rs_save", ![s].received = 1,
                                         ![s].response = "complete"]
         ELSE RestFail(s)
  /\ UNCHANGED <<conversations, messages, emitted, connected, starts, nonChatVars>>

\* prisma.message.create of the assistant message and the response
RestSaveAssistantMessage(s) ==
  /\ session[s].pc = "rs_save"
  /\ \E ok \in BOOLEAN :
       IF ok
         THEN /\ messages' = AppendMessage(messages,
                   Message(session[s].conversationId, "ASSISTANT",
                           session[s].request, session[s].received))
              /\ session' = [session EXCEPT ![s].pc = "completed"]
         ELSE /\ messages' = messages
              /\ RestFail(s)
  /\ UNCHANGED <<conversations, emitted, connected, starts, nonChatVars>>

\* a project whose collection exists (an ingest has run) or not
InitChat ==
  /\ \E indexed \in BOOLEAN :
       /\ project = [p \in Projects |->
            [qdrantCollectionId |-> IF indexed THEN CollectionName(p) ELSE Null]]
       /\ collections = IF indexed THEN {CollectionName(p) : p \in Projects} ELSE {}
  /\ document = [d \in Documents |-> NoRow]
  /\ s3 = [d \in Documents |-> NoFile]
  /\ points = {}
  /\ task = [t \in Tasks |-> IdleTask]
  /\ active = {}
  /\ requests = 0
  /\ OtherInit

\* ---------------------------------------------------------------------------
\* ConversationMemoryService: the memory of one conversation.  A message
\* content is its number of characters and the number of times it mentions
\* one term that passes isLikelyEntity.

\* the configuration of the constructor, scaled down
maxTokens == 40
maxMessages == 2
summaryThreshold == 1
entityThreshold == 2

MaxLog == 4

\* contents a client or the model may write
Contents == [chars : {40, 80}, mentions : {0, 1}]

\* lengths of the summary the chat model may return
SummaryChars == {20, 200}

\* "Previous conversation covered various topics related to the course
\* materials."
FallbackSummaryChars == 77

\* "Previous conversation summary: "
SummaryPrefixChars == 31

\* "Key topics in this conversation: " and "term (topic, mentioned N times)"
\* for a term of four letters mentioned fewer than ten times
EntityPrefixChars == 33
EntityItemChars == 31

\* Math.ceil(text.length / 4)
estimateTokens(chars) == (chars + 3) \div 4

RECURSIVE SumTokens(_)
SumTokens(msgs) ==
  IF msgs = <<>> THEN 0
  ELSE estimateTokens(Head(msgs).content.chars) + SumTokens(Tail(msgs))

\* the loop that takes messages from the most recent back, from index i down,
\* and stops at the first one that does not fit
RECURSIVE TakeRecent(_, _, _)
TakeRecent(msgs, i, tokenCount) ==
  IF i = 0 \/ tokenCount + estimateTokens(msgs[i].content.chars) > maxTokens
  THEN [recentMessages |-> <<>>, tokenCount |-> tokenCount]
  ELSE LET r == TakeRecent(msgs, i - 1,
                           tokenCount + estimateTokens(msgs[i].content.chars))
       IN  [recentMessages |-> Append(r.recentMessages, msgs[i]),
            tokenCount |-> r.tokenCount]

RECURSIVE Mentions(_)
Mentions(msgs) ==
  IF msgs = <<>> THEN 0 ELSE Head(msgs).content.mentions + Mentions(Tail(msgs))

\* the number of mentions of the term if it is an entity, else 0 (no entity)
extractEntities(msgs) ==
  IF Mentions(msgs) >= entityThreshold THEN Mentions(msgs) ELSE 0

EmptyMemory ==
  [recentMessages |-> <<>>, summary |-> NoSummary, entities |-> 0,
   tokenCount |-> 0, memoryType |-> "buffer"]

createBufferMemory(msgs) ==
  LET r == TakeRecent(msgs, Len(msgs), 0)
  IN  [recentMessages |-> r.recentMessages, summary |-> NoSummary,
       entities |-> extractEntities(r.recentMessages),
       tokenCount |-> r.tokenCount, memoryType |-> "buffer"]

splitPoint(msgs) == IF Len(msgs) > maxMessages THEN Len(msgs) - maxMessages ELSE 0

\* createHybridMemory once the summary of the older messages is known
HybridMemory(msgs, summary) ==
  LET recent == SubSeq(msgs, splitPoint(msgs) + 1, Len(msgs))
      summaryTokens == IF summary = NoSummary THEN 0 ELSE estimateTokens(summary)
      r == TakeRecent(recent, Len(recent), summaryTokens)
  IN  [recentMessages |-> r.recentMessages, summary |-> summary,
       entities |-> extractEntities(msgs),
       tokenCount |-> r.tokenCount, memoryType |-> "hybrid"]

\* the messages handed to the chat model: system notes, then recent messages,
\* each item by its number of characters
formatMemoryForAI(memory) ==
  (IF memory.summary > 0
   THEN <<[role |-> "system", chars |-> SummaryPrefixChars + memory.summary]>>
   ELSE <<>>)
  \o (IF memory.entities > 0
      THEN <<[role |-> "system", chars |-> EntityPrefixChars + EntityItemChars]>>
      ELSE <<>>)
  \o [i \in 1..Len(memory.recentMessages) |->
        [role |-> IF memory.recentMessages[i].role = "USER" THEN "user" ELSE "assistant",
         chars |-> memory.recentMessages[i].content.chars]]

\* a chat handler stores one more message of the conversation
MemLogMessage(c, content) ==
  /\ Len(messages) < MaxLog
  /\ messages' = AppendMessage(messages,
       Message(c, IF Len(messages) % 2 = 0 THEN "USER" ELSE "ASSISTANT",
               Len(messages) \div 2 + 1, content))
  /\ UNCHANGED <<memcall, nonMemVars>>

\* getConversationMemory(conversationId) is called
MemStart(c) ==
  /\ memcall.pc = "idle"
  /\ memcall' = [IdleMemCall EXCEPT !.pc = "mm_find", !.conversationId = c]
  /\ UNCHANGED <<messages, nonMemVars>>

\* prisma.message.findMany, then the choice of the strategy; buffer memory and
\* hybrid memory without older messages are built at once
MemFind ==
  /\ memcall.pc = "mm_find"
  /\ \E ok \in BOOLEAN :
       LET all == SelectSeq(messages,
                    LAMBDA m : m.conversationId = memcall.conversationId)
       IN  memcall' =
             IF ~ok \/ all = <<>>
             THEN [memcall EXCEPT !.pc = "mm_done", !.memory = EmptyMemory]
             ELSE IF Len(all) <= summaryThreshold /\ SumTokens(all) <= maxTokens
             THEN [memcall EXCEPT !.pc = "mm_done", !.allMessages = all,
                                  !.memory = createBufferMemory(all)]
             ELSE IF splitPoint(all) > 0
             THEN [memcall EXCEPT !.pc = "mm_summary", !.allMessages = all]
             ELSE [memcall EXCEPT !.pc = "mm_done", !.allMessages = all,
                                  !.memory = HybridMemory(all, NoSummary)]
  /\ UNCHANGED <<messages, nonMemVars>>

\* generateConversationSummary: the chat model returns a summary, or the call
\* fails and the catch returns the fixed sentence; createHybridMemory goes on
MemSummarize ==
  /\ memcall.pc = "mm_summary"
  /\ \E ok \in BOOLEAN, chars \in SummaryChars :
       LET summary == IF ok THEN chars ELSE FallbackSummaryChars
       IN  memcall' = [memcall EXCEPT !.pc = "mm_done", !.summary = summary,
                                      !.summaryFailed = ~ok,
                                      !.memory = HybridMemory(memcall.allMessages, summary)]
  /\ UNCHANGED <<messages, nonMemVars>>

\* the memory is returned to the caller
MemReturn ==
  /\ memcall.pc = "mm_done"
  /\ memcall' = IdleMemCall
  /\ UNCHANGED <<messages, nonMemVars>>

InitMemory ==
  /\ project = [p \in Projects |-> [qdrantCollectionId |-> Null]]
  /\ document = [d \in Documents |-> NoRow]
  /\ s3 = [d \in Documents |-> NoFile]
  /\ collections = {}
  /\ points = {}
  /\ task = [t \in Tasks |-> IdleTask]
  /\ active = {}
  /\ requests = 0
  /\ conversations = {ConvOrder[1]}
  /\ messages = <<>>
  /\ session = [s \in Sessions |-> IdleSession]
  /\ emitted = [s \in Sessions |-> <<>>]
  /\ connected = [s \in Sessions |-> TRUE]
  /\ starts = 0
  /\ MemoryInit
  /\ ApiInit
  /\ FilesInit
  /\ AuxInit

NextMemory ==
  \/ \E c \in conversations, content \in Contents : MemLogMessage(c, content)
  \/ \E c \in conversations : MemStart(c)
  \/ MemFind
  \/ MemSummarize
  \/ MemReturn

SpecMemory == InitMemory /\ [][NextMemory]_vars

\* ---------------------------------------------------------------------------
\* OpenAIService: the calls to the provider.  The repository holds two
\* versions of the class: services/openai.service.ts, which the other services
\* import, makes one attempt; the other one has a retry loop.

ApiOps == {"generateEmbeddings", "generateQueryEmbedding",
           "generateChatCompletion", "generateStreamingChatCompletion"}

ApiServices == {"single", "retrying"}

\* the default of the parameter `retries`
Retries(op) == IF op = "generateStreamingChatCompletion" THEN 2 ELSE 3

\* Math.pow(2, attempt - 1) * 1000
waitTime(attempt) == (2 ^ (attempt - 1)) * 1000

\* a service calls op of one of the two versions
ApiStart(k, service, op) ==
  /\ calls[k].pc = "idle"
  /\ calls' = [calls EXCEPT ![k] =
       [pc |-> "attempt", service |-> service, op |-> op,
        retries |-> IF service = "retrying" THEN Retries(op) ELSE 1,
        attempt |-> 1, waited |-> <<>>]]
  /\ UNCHANGED nonApiVars

\* services/openai.service.ts: one request to the provider; its failure is
\* wrapped and thrown
SingleAttempt(k) ==
  /\ calls[k].pc = "attempt"
  /\ calls[k].service = "single"
  /\ \E ok \in BOOLEAN :
       calls' = [calls EXCEPT ![k].pc = IF ok THEN "returned" ELSE "thrown"]
  /\ UNCHANGED nonApiVars

\* one turn of `for (let attempt = 1; attempt <= retries; attempt++)`: the
\* request returns, or fails on the last attempt and is thrown, or fails
\* earlier and the timer is set
RetryAttempt(k) ==
  /\ calls[k].pc = "attempt"
  /\ calls[k].service = "retrying"
  /\ \E ok \in BOOLEAN :
       calls' = [calls EXCEPT ![k] =
         IF ok THEN [@ EXCEPT !.pc = "returned"]
         ELSE IF @.attempt = @.retries THEN [@ EXCEPT !.pc = "thrown"]
         ELSE [@ EXCEPT !.pc = "waiting",
                        !.waited = Append(@, waitTime(calls[k].attempt))]]
  /\ UNCHANGED nonApiVars

\* the timer fires and the loop goes on
RetryWake(k) ==
  /\ calls[k].pc = "waiting"
  /\ calls' = [calls EXCEPT ![k].pc = "attempt", ![k].attempt = @ + 1]
  /\ UNCHANGED nonApiVars

\* the caller has the result or the error
ApiEnd(k) ==
  /\ calls[k].pc \in {"returned", "thrown"}
  /\ calls' = [calls EXCEPT ![k] = IdleCall]
  /\ UNCHANGED nonApiVars

NextApi ==
  \/ \E k \in Callers, service \in ApiServices, op \in ApiOps : ApiStart(k, service, op)
  \/ \E k \in Callers : SingleAttempt(k)
  \/ \E k \in Callers : RetryAttempt(k)
  \/ \E k \in Callers : RetryWake(k)
  \/ \E k \in Callers : ApiEnd(k)

SpecApi == InitSeq /\ [][NextApi]_vars

\* ---------------------------------------------------------------------------
\* GeneratedFilesService: files, their versions and the background generation.

MaxFileCalls == 2

\* generateFileName(displayName) of the display names that clients send
FileNames == {"guide"}

\* the unique index generated_files_projectId_fileName_key, without its check
NoFileNameIndex(fileName) == TRUE

\* the unique index generated_files_projectId_fileName_key: a row with this
\* file name can be inserted
FileNameFree(fileName) == \A f \in generatedFile : f.fileName # fileName

\* the unique index generated_file_versions_fileId_version_key
VersionFree(id, version) ==
  \A v \in generatedFileVersion : ~(v.fileId = id /\ v.version = version)

\* uuid of a new generated_files row: an id that no row, call or generation
\* has had
NewFileId ==
  LET used == {f.id : f \in generatedFile}
                \cup {generation[g].fileId : g \in DOMAIN generation}
                \cup {fcall[j].fileId : j \in FileCallers}
  IN  1 + (CHOOSE m \in used \cup {NoFileId} : \A i \in used : i <= m)

FileRow(id) == CHOOSE f \in generatedFile : f.id = id

\* the generated_files row is there: the foreign key
\* generated_file_versions_fileId_fkey lets a version in, and a findUnique or
\* an update by this id succeeds
FileExists(id) == \E f \in generatedFile : f.id = id

\* prisma.generatedFile.update({ where: { id }, data: { currentVersion } })
SetCurrentVersion(id, version) ==
  {IF f.id = id THEN [f EXCEPT !.currentVersion = version] ELSE f : f \in generatedFile}

\* the call throws
FileThrow(j) == fcall' = [fcall EXCEPT ![j].pc = "thrown"]

\* generateFileContentAsync(file, version, ...) is started and not awaited
Spawn(id, version) ==
  Append(generation, [fileId |-> id, version |-> version, pc |-> "g_start",
                      events |-> <<>>, failedWrites |-> 0])

\* a new call runs in the first caller that is not busy (the callers are
\* interchangeable)
FirstIdleCaller(j) ==
  /\ fcall[j].pc = "idle"
  /\ \A u \in FileCallers : fcall[u].pc = "idle" => (j = "j1" \/ u # "j1")

\* createFile(params) is called
CreateFileStart(j, fileName) ==
  /\ FirstIdleCaller(j)
  /\ fcalls < MaxFileCalls
  /\ fcalls' = fcalls + 1
  /\ fcall' = [fcall EXCEPT ![j] =
       [IdleFileCall EXCEPT !.op = "createFile", !.pc = "cf_find",
                            !.call = fcalls + 1, !.fileName = fileName]]
  /\ UNCHANGED <<generatedFile, generatedFileVersion, generation, storage, nonFileVars>>

\* prisma.generatedFile.findUnique by (projectId, fileName); an existing file
\* sends the call into createNewVersion
CfFind(j) ==
  /\ fcall[j].pc = "cf_find"
  /\ \E ok \in BOOLEAN :
       IF ~ok THEN FileThrow(j)
       ELSE IF \E f \in generatedFile : f.fileName = fcall[j].fileName
       THEN LET f == CHOOSE g \in generatedFile : g.fileName = fcall[j].fileName
            IN  fcall' = [fcall EXCEPT ![j].pc = "nv_find", ![j].existing = f.id,
                                       ![j].fileId = f.id]
       ELSE fcall' = [fcall EXCEPT ![j].pc = "cf_create"]
  /\ UNCHANGED <<generatedFile, generatedFileVersion, generation, fcalls, storage, nonFileVars>>

\* prisma.generatedFile.create; currentVersion has the default 1
CfCreate(j) ==
  /\ fcall[j].pc = "cf_create"
  /\ \E ok \in BOOLEAN :
       IF ok /\ FileNameFree(fcall[j].fileName)
       THEN /\ generatedFile' = generatedFile \cup
                 {[id |-> NewFileId, fileName |-> fcall[j].fileName,
                   currentVersion |-> 1, call |-> fcall[j].call]}
            /\ fcall' = [fcall EXCEPT ![j].pc = "cf_version", ![j].fileId = NewFileId]
       ELSE /\ FileThrow(j)
            /\ UNCHANGED generatedFile
  /\ UNCHANGED <<generatedFileVersion, generation, fcalls, storage, nonFileVars>>

\* a generated_file_versions row as prisma.generatedFileVersion.create makes it
VersionRow(id, version, call) ==
  [fileId |-> id, version |-> version, s3Key |-> "", status |-> "pending",
   call |-> call]

\* prisma.generatedFileVersion.create of version 1
CfVersion(j) ==
  /\ fcall[j].pc = "cf_version"
  /\ \E ok \in BOOLEAN :
       IF ok /\ FileExists(fcall[j].fileId) /\ VersionFree(fcall[j].fileId, 1)
       THEN /\ generatedFileVersion' = generatedFileVersion \cup
                 {VersionRow(fcall[j].fileId, 1, fcall[j].call)}
            /\ fcall' = [fcall EXCEPT ![j].pc = "cf_update"]
       ELSE /\ FileThrow(j)
            /\ UNCHANGED generatedFileVersion
  /\ UNCHANGED <<generatedFile, generation, fcalls, storage, nonFileVars>>

\* prisma.generatedFile.update of currentVersion to 1; the generation is
\* started in the background and the file is returned
CfUpdate(j) ==
  /\ fcall[j].pc = "cf_update"
  /\ \E ok \in BOOLEAN :
       IF ok /\ FileExists(fcall[j].fileId)
       THEN /\ generatedFile' = SetCurrentVersion(fcall[j].fileId, 1)
            /\ generation' = Spawn(fcall[j].fileId, 1)
            /\ fcall' = [fcall EXCEPT ![j].pc = "returned",
                                      ![j].result = fcall[j].fileId]
       ELSE /\ FileThrow(j)
            /\ UNCHANGED <<generatedFile, generation>>
  /\ UNCHANGED <<generatedFileVersion, fcalls, storage, nonFileVars>>

\* createNewVersion({fileId, editPrompt}) is called on a file
CreateNewVersionStart(j, id) ==
  /\ FirstIdleCaller(j)
  /\ fcalls < MaxFileCalls
  /\ \E f \in generatedFile : f.id = id
  /\ fcalls' = fcalls + 1
  /\ fcall' = [fcall EXCEPT ![j] =
       [IdleFileCall EXCEPT !.op = "createNewVersion", !.pc = "nv_find",
                            !.call = fcalls + 1, !.fileId = id]]
  /\ UNCHANGED <<generatedFile, generatedFileVersion, generation, storage, nonFileVars>>

\* prisma.generatedFile.findUnique by id: newVersion = file.currentVersion + 1
NvFind(j) ==
  /\ fcall[j].pc = "nv_find"
  /\ \E ok \in BOOLEAN :
       IF ok /\ FileExists(fcall[j].fileId)
       THEN fcall' = [fcall EXCEPT ![j].pc = "nv_base",
                        ![j].newVersion = FileRow(fcall[j].fileId).currentVersion + 1]
       ELSE FileThrow(j)
  /\ UNCHANGED <<generatedFile, generatedFileVersion, generation, fcalls, storage, nonFileVars>>

\* prisma.generatedFileVersion.findUnique of the base version (baseVer > 0)
NvBase(j) ==
  /\ fcall[j].pc = "nv_base"
  /\ \E ok \in BOOLEAN :
       IF ok THEN fcall' = [fcall EXCEPT ![j].pc = "nv_create"] ELSE FileThrow(j)
  /\ UNCHANGED <<generatedFile, generatedFileVersion, generation, fcalls, storage, nonFileVars>>

\* prisma.generatedFileVersion.create of newVersion
NvCreate(j) ==
  /\ fcall[j].pc = "nv_create"
  /\ \E ok \in BOOLEAN :
       IF ok /\ FileExists(fcall[j].fileId)
             /\ VersionFree(fcall[j].fileId, fcall[j].newVersion)
       THEN /\ generatedFileVersion' = generatedFileVersion \cup
                 {VersionRow(fcall[j].fileId, fcall[j].newVersion, fcall[j].call)}
            /\ fcall' = [fcall EXCEPT ![j].pc = "nv_update"]
       ELSE /\ FileThrow(j)
            /\ UNCHANGED generatedFileVersion
  /\ UNCHANGED <<generatedFile, generation, fcalls, storage, nonFileVars>>

\* prisma.generatedFile.update of currentVersion to newVersion; the generation
\* is started in the background; createNewVersion returns, to its caller or
\* into createFile
NvUpdate(j) ==
  /\ fcall[j].pc = "nv_update"
  /\ \E ok \in BOOLEAN :
       IF ok /\ FileExists(fcall[j].fileId)
       THEN /\ generatedFile' = SetCurrentVersion(fcall[j].fileId, fcall[j].newVersion)
            /\ generation' = Spawn(fcall[j].fileId, fcall[j].newVersion)
            /\ fcall' = [fcall EXCEPT
                 ![j].pc = IF fcall[j].op = "createFile" THEN "cf_refetch" ELSE "returned",
                 ![j].result = IF fcall[j].op = "createFile" THEN NoFileId
                               ELSE fcall[j].fileId]
       ELSE /\ FileThrow(j)
            /\ UNCHANGED <<generatedFile, generation>>
  /\ UNCHANGED <<generatedFileVersion, fcalls, storage, nonFileVars>>

\* createFile returns prisma.generatedFile.findUnique by the existing id (null
\* when the file is gone)
CfRefetch(j) ==
  /\ fcall[j].pc = "cf_refetch"
  /\ \E ok \in BOOLEAN :
       IF ok
       THEN fcall' = [fcall EXCEPT ![j].pc = "returned",
                        ![j].result = IF FileExists(fcall[j].existing)
                                      THEN fcall[j].existing ELSE NoFileId]
       ELSE FileThrow(j)
  /\ UNCHANGED <<generatedFile, generatedFileVersion, generation, fcalls, storage, nonFileVars>>

\* the caller has the result or the error
FileCallEnd(j) ==
  /\ fcall[j].pc \in {"returned", "thrown"}
  /\ fcall' = [fcall EXCEPT ![j] = IdleFileCall]
  /\ UNCHANGED <<generatedFile, generatedFileVersion, generation, fcalls, storage, nonFileVars>>

\* prisma.generatedFileVersion.update of the row of generation g
UpdateVersion(g, s3Key, status) ==
  {IF v.fileId = generation[g].fileId /\ v.version = generation[g].version
   THEN [v EXCEPT !.s3Key = s3Key, !.status = status] ELSE v
   : v \in generatedFileVersion}

VersionOf(g) ==
  CHOOSE v \in generatedFileVersion :
     v.fileId = generation[g].fileId /\ v.version = generation[g].version

\* the row of generation g is there (an update of a missing row fails)
RowExists(g) ==
  \E v \in generatedFileVersion :
     v.fileId = generation[g].fileId /\ v.version = generation[g].version

\* updateGenerationStatus: the update of the status column, whose failure is
\* logged and dropped
UpdateStatus(g, status, ok) ==
  IF ok /\ RowExists(g) THEN UpdateVersion(g, VersionOf(g).s3Key, status)
  ELSE generatedFileVersion

\* webSocketService.notifyFileGeneration
Notify(g, pc, status) ==
  [generation EXCEPT ![g].pc = pc, ![g].events = Append(@, status)]

\* generateFileContentAsync: the progress event `generating`, on its way to
\* updateGenerationStatus(generating)
GenStart(g) ==
  /\ generation[g].pc = "g_start"
  /\ generation' = Notify(g, "g_generating", "generating")
  /\ UNCHANGED <<generatedFile, generatedFileVersion, fcall, fcalls, storage, nonFileVars>>

\* updateGenerationStatus(generating)
GenStatusGenerating(g) ==
  /\ generation[g].pc = "g_generating"
  /\ \E ok \in BOOLEAN :
       generatedFileVersion' = UpdateStatus(g, "generating", ok)
  /\ generation' = [generation EXCEPT ![g].pc = "g_content"]
  /\ UNCHANGED <<generatedFile, fcall, fcalls, storage, nonFileVars>>

\* generateFileContent up to the write of the file: context, chat model and
\* rendering succeed or one of them fails
GenContent(g) ==
  /\ generation[g].pc = "g_content"
  /\ \E ok \in BOOLEAN :
       generation' = [generation EXCEPT ![g].pc = IF ok THEN "g_write" ELSE "g_error"]
  /\ UNCHANGED <<generatedFile, generatedFileVersion, fcall, fcalls, storage, nonFileVars>>

\* fs.mkdir(fileDir, { recursive: true }) and fs.writeFile of the file and of
\* its metadata under storageDir/fileId/v{version}
GenWrite(g) ==
  /\ generation[g].pc = "g_write"
  /\ \E ok \in BOOLEAN :
       IF ok
       THEN /\ storage' = storage \cup {<<generation[g].fileId, generation[g].version>>}
            /\ generation' = [generation EXCEPT ![g].pc = "g_store"]
       ELSE /\ generation' = [generation EXCEPT ![g].pc = "g_error"]
            /\ UNCHANGED storage
  /\ UNCHANGED <<generatedFile, generatedFileVersion, fcall, fcalls, nonFileVars>>

\* the update of the version row with its storage key; generateFileContent
\* returns and the progress event `completed` is sent at once
GenStore(g) ==
  /\ generation[g].pc = "g_store"
  /\ \E ok \in BOOLEAN :
       IF ok /\ RowExists(g)
       THEN /\ generatedFileVersion' = UpdateVersion(g, "key", VersionOf(g).status)
            /\ generation' = Notify(g, "g_completed", "completed")
       ELSE /\ generation' = [generation EXCEPT ![g].pc = "g_error"]
            /\ UNCHANGED generatedFileVersion
  /\ UNCHANGED <<generatedFile, fcall, fcalls, storage, nonFileVars>>

\* updateGenerationStatus(completed)
GenStatusCompleted(g) ==
  /\ generation[g].pc = "g_completed"
  /\ \E ok \in BOOLEAN :
       generatedFileVersion' = UpdateStatus(g, "completed", ok)
  /\ generation' = [generation EXCEPT ![g].pc = "g_done"]
  /\ UNCHANGED <<generatedFile, fcall, fcalls, storage, nonFileVars>>

\* the catch of generateFileContent: the row gets an empty storage key (or this
\* update fails too), the error goes on to the catch of
\* generateFileContentAsync, which sends the progress event `failed`
GenError(g) ==
  /\ generation[g].pc = "g_error"
  /\ \E ok \in BOOLEAN :
       generatedFileVersion' =
         IF ok /\ RowExists(g) THEN UpdateVersion(g, "", VersionOf(g).status)
         ELSE generatedFileVersion
  /\ generation' = Notify(g, "g_failed", "failed")
  /\ UNCHANGED <<generatedFile, fcall, fcalls, storage, nonFileVars>>

\* updateGenerationStatus(failed) in the catch of generateFileContentAsync,
\* which then throws the error again
GenStatusFailed(g) ==
  /\ generation[g].pc = "g_failed"
  /\ \E ok \in BOOLEAN :
       /\ generatedFileVersion' = UpdateStatus(g, "failed", ok)
       /\ generation' = [generation EXCEPT ![g].pc = "g_catch",
            ![g].failedWrites = IF ok /\ RowExists(g) THEN @ + 1 ELSE @]
  /\ UNCHANGED <<generatedFile, fcall, fcalls, storage, nonFileVars>>

\* the .catch of createFile, resetting the version for another attempt
GenCatchResets(g) ==
  /\ generation[g].pc = "g_catch"
  /\ generatedFileVersion' = UpdateStatus(g, "pending", TRUE)
  /\ generation' = [generation EXCEPT ![g].pc = "g_done"]
  /\ UNCHANGED <<generatedFile, fcall, fcalls, storage, nonFileVars>>

\* the .catch that createFile and createNewVersion put on the generation:
\* updateGenerationStatus(failed) once more
GenCatch(g) ==
  /\ generation[g].pc = "g_catch"
  /\ \E ok \in BOOLEAN :
       /\ generatedFileVersion' = UpdateStatus(g, "failed", ok)
       /\ generation' = [generation EXCEPT ![g].pc = "g_done",
            ![g].failedWrites = IF ok /\ RowExists(g) THEN @ + 1 ELSE @]
  /\ UNCHANGED <<generatedFile, fcall, fcalls, storage, nonFileVars>>

\* deleteFile(fileId) is called on a file
DeleteFileStart(j, id) ==
  /\ FirstIdleCaller(j)
  /\ fcalls < MaxFileCalls
  /\ \E f \in generatedFile : f.id = id
  /\ fcalls' = fcalls + 1
  /\ fcall' = [fcall EXCEPT ![j] =
       [IdleFileCall EXCEPT !.op = "deleteFile", !.pc = "df_find",
                            !.call = fcalls + 1, !.fileId = id]]
  /\ UNCHANGED <<generatedFile, generatedFileVersion, generation, storage, nonFileVars>>

\* getFileById: a missing file throws 'Arquivo não encontrado'
DfFind(j) ==
  /\ fcall[j].pc = "df_find"
  /\ \E ok \in BOOLEAN :
       IF ok /\ FileExists(fcall[j].fileId)
       THEN fcall' = [fcall EXCEPT ![j].pc = "df_rm"]
       ELSE FileThrow(j)
  /\ UNCHANGED <<generatedFile, generatedFileVersion, generation, fcalls, storage, nonFileVars>>

\* fs.rm(storageDir/fileId, { recursive: true, force: true }); its failure is
\* logged and the call goes on
DfRemove(j) ==
  /\ fcall[j].pc = "df_rm"
  /\ \E ok \in BOOLEAN :
       storage' = IF ok THEN {b \in storage : b[1] # fcall[j].fileId} ELSE storage
  /\ fcall' = [fcall EXCEPT ![j].pc = "df_delete"]
  /\ UNCHANGED <<generatedFile, generatedFileVersion, generation, fcalls, nonFileVars>>

\* prisma.generatedFile.delete; the foreign key of generated_file_versions
\* deletes the versions of the file with it (ON DELETE CASCADE)
DfDelete(j) ==
  /\ fcall[j].pc = "df_delete"
  /\ \E ok \in BOOLEAN :
       IF ok /\ FileExists(fcall[j].fileId)
       THEN /\ generatedFile' = {f \in generatedFile : f.id # fcall[j].fileId}
            /\ generatedFileVersion' =
                 {v \in generatedFileVersion : v.fileId # fcall[j].fileId}
            /\ fcall' = [fcall EXCEPT ![j].pc = "returned"]
       ELSE /\ FileThrow(j)
            /\ UNCHANGED <<generatedFile, generatedFileVersion>>
  /\ UNCHANGED <<generation, fcalls, storage, nonFileVars>>

NextFiles ==
  \/ \E j \in FileCallers, fileName \in FileNames : CreateFileStart(j, fileName)
  \/ \E j \in FileCallers : CfFind(j)
  \/ \E j \in FileCallers : CfCreate(j)
  \/ \E j \in FileCallers : CfVersion(j)
  \/ \E j \in FileCallers : CfUpdate(j)
  \/ \E j \in FileCallers, f \in generatedFile : CreateNewVersionStart(j, f.id)
  \/ \E j \in FileCallers : NvFind(j)
  \/ \E j \in FileCallers : NvBase(j)
  \/ \E j \in FileCallers : NvCreate(j)
  \/ \E j \in FileCallers : NvUpdate(j)
  \/ \E j \in FileCallers : CfRefetch(j)
  \/ \E j \in FileCallers : FileCallEnd(j)
  \/ \E g \in DOMAIN generation : GenStart(g)
  \/ \E g \in DOMAIN generation : GenStatusGenerating(g)
  \/ \E g \in DOMAIN generation : GenContent(g)
  \/ \E g \in DOMAIN generation : GenWrite(g)
  \/ \E g \in DOMAIN generation : GenStore(g)
  \/ \E g \in DOMAIN generation : GenStatusCompleted(g)
  \/ \E g \in DOMAIN generation : GenError(g)
  \/ \E g \in DOMAIN generation : GenStatusFailed(g)
  \/ \E g \in DOMAIN generation : GenCatch(g)

SpecFiles == InitSeq /\ [][NextFiles]_vars

\* the generated files with their deletion
NextFileDelete ==
  \/ \E j \in FileCallers, fileName \in FileNames : CreateFileStart(j, fileName)
  \/ \E j \in FileCallers : CfFind(j)
  \/ \E j \in FileCallers : CfCreate(j)
  \/ \E j \in FileCallers : CfVersion(j)
  \/ \E j \in FileCallers : CfUpdate(j)
  \/ \E j \in FileCallers, f \in generatedFile : CreateNewVersionStart(j, f.id)
  \/ \E j \in FileCallers : NvFind(j)
  \/ \E j \in FileCallers : NvBase(j)
  \/ \E j \in FileCallers : NvCreate(j)
  \/ \E j \in FileCallers : NvUpdate(j)
  \/ \E j \in FileCallers : CfRefetch(j)
  \/ \E j \in FileCallers, f \in generatedFile : DeleteFileStart(j, f.id)
  \/ \E j \in FileCallers : DfFind(j)
  \/ \E j \in FileCallers : DfRemove(j)
  \/ \E j \in FileCallers : DfDelete(j)
  \/ \E j \in FileCallers : FileCallEnd(j)
  \/ \E g \in DOMAIN generation : GenStart(g)
  \/ \E g \in DOMAIN generation : GenStatusGenerating(g)
  \/ \E g \in DOMAIN generation : GenContent(g)
  \/ \E g \in DOMAIN generation : GenWrite(g)
  \/ \E g \in DOMAIN generation : GenStore(g)
  \/ \E g \in DOMAIN generation : GenStatusCompleted(g)
  \/ \E g \in DOMAIN generation : GenError(g)
  \/ \E g \in DOMAIN generation : GenStatusFailed(g)
  \/ \E g \in DOMAIN generation : GenCatch(g)

SpecFileDelete == InitSeq /\ [][NextFileDelete]_vars

\* one client calling at a time, with the generations of its calls running in
\* the background
NextGeneration ==
  \/ \E j \in {"j1"}, fileName \in FileNames : CreateFileStart(j, fileName)
  \/ \E j \in {"j1"} : CfFind(j)
  \/ \E j \in {"j1"} : CfCreate(j)
  \/ \E j \in {"j1"} : CfVersion(j)
  \/ \E j \in {"j1"} : CfUpdate(j)
  \/ \E j \in {"j1"}, f \in generatedFile : CreateNewVersionStart(j, f.id)
  \/ \E j \in {"j1"} : NvFind(j)
  \/ \E j \in {"j1"} : NvBase(j)
  \/ \E j \in {"j1"} : NvCreate(j)
  \/ \E j \in {"j1"} : NvUpdate(j)
  \/ \E j \in {"j1"} : CfRefetch(j)
  \/ \E j \in {"j1"} : FileCallEnd(j)
  \/ \E g \in DOMAIN generation : GenStart(g)
  \/ \E g \in DOMAIN generation : GenStatusGenerating(g)
  \/ \E g \in DOMAIN generation : GenContent(g)
  \/ \E g \in DOMAIN generation : GenWrite(g)
  \/ \E g \in DOMAIN generation : GenStore(g)
  \/ \E g \in DOMAIN generation : GenStatusCompleted(g)
  \/ \E g \in DOMAIN generation : GenError(g)
  \/ \E g \in DOMAIN generation : GenStatusFailed(g)
  \/ \E g \in DOMAIN generation : GenCatch(g)

SpecGeneration == InitSeq /\ [][NextGeneration]_vars

(***************************************************************************)
(* GeneratedFilesService.generateFileName: the file name of a display name *)
(***************************************************************************)
\* the length that substring(0, 50) keeps
maxFileNameLength == 50

\* display names are a run of letters followed by up to MaxTail characters
MaxTail == 3

\* a lower-case letter, an upper-case letter, a blank and a hyphen
NameChars == {"a", "B", " ", "-"}

DisplayNames ==
  LET Letters(n) == [i \in 1..n |-> "a"]
      Tails == UNION {[1..n -> NameChars] : n \in 0..MaxTail}
  IN  {Letters(n) \o t :
         n \in {0} \cup ((maxFileNameLength - MaxTail)..maxFileNameLength),
         t \in Tails}

\* .replace(/[^a-z0-9]+/g, '-'): every run of other characters becomes one
\* hyphen
RECURSIVE replaceRuns(_)
replaceRuns(s) ==
  IF s = <<>> THEN <<>>
  ELSE LET rest == replaceRuns(Tail(s))
       IN  IF Head(s) \in {"a", "b"} THEN <<Head(s)>> \o rest
           ELSE IF rest # <<>> /\ Head(rest) = "-" THEN rest
           ELSE <<"-">> \o rest

\* toLowerCase, the runs replaced, .replace(/^-|-$/g, '') and substring(0, 50)
generateFileName(displayName) ==
  LET lower == [i \in DOMAIN displayName |->
                  IF displayName[i] = "B" THEN "b" ELSE displayName[i]]
      dashed == replaceRuns(lower)
      front == IF dashed # <<>> /\ Head(dashed) = "-" THEN Tail(dashed) ELSE dashed
      both == IF front # <<>> /\ front[Len(front)] = "-"
              THEN SubSeq(front, 1, Len(front) - 1) ELSE front
  IN  SubSeq(both, 1, IF Len(both) < maxFileNameLength THEN Len(both)
                      ELSE maxFileNameLength)

\* a client names a file
NameFile(displayName) ==
  /\ naming.pc = "idle"
  /\ naming' = [naming EXCEPT !.pc = "named", !.displayName = displayName]
  /\ UNCHANGED <<loader, deletedProjects, foreign, nonAuxVars>>

\* generateFileName(params.displayName)
GenerateFileName ==
  /\ naming.pc = "named"
  /\ naming' = [naming EXCEPT !.pc = "slugged",
                              !.fileName = generateFileName(naming.displayName)]
  /\ UNCHANGED <<loader, deletedProjects, foreign, nonAuxVars>>

\* generateFileName of a file name
GenerateFileNameAgain ==
  /\ naming.pc = "slugged"
  /\ naming' = [naming EXCEPT !.pc = "twice",
                              !.again = generateFileName(naming.fileName)]
  /\ UNCHANGED <<loader, deletedProjects, foreign, nonAuxVars>>

NextSlug ==
  \/ \E displayName \in DisplayNames : NameFile(displayName)
  \/ GenerateFileName
  \/ GenerateFileNameAgain

SpecSlug == InitSeq /\ [][NextSlug]_vars

(***************************************************************************)
(* LangChainDocumentService.processDocument: the document loader           *)
(***************************************************************************)
\* number of documents loaded in one run
MaxLoads == 2

\* path.extname(file.originalname).toLowerCase()
Extensions == {".pdf", ".docx", ".txt", ".md", ".exe"}

\* processDocument(file) is called
LoadStart(extension) ==
  /\ loader.pc = "idle"
  /\ loader.loads < MaxLoads
  /\ loader' = [loader EXCEPT !.pc = "lt_create", !.extension = extension,
                              !.loads = @ + 1]
  /\ UNCHANGED <<naming, deletedProjects, foreign, nonAuxVars>>

\* createTempFile: fs.writeFile(tempFilePath, file.buffer); a write that fails
\* may have created the file already, and the call ends in the outer catch
LtCreateTempFile ==
  /\ loader.pc = "lt_create"
  /\ \E ok \in BOOLEAN, partial \in BOOLEAN :
       loader' = IF ok
         THEN [loader EXCEPT !.pc = "lt_load", !.tempFile = TRUE]
         ELSE [loader EXCEPT !.pc = "thrown", !.exit = "write",
                             !.tempFile = partial, !.writeFailed = TRUE]
  /\ UNCHANGED <<naming, deletedProjects, foreign, nonAuxVars>>

\* the switch on the extension, loader.load() and the check of the text: an
\* unsupported type, a loader that fails and an empty text throw into the
\* finally block
LtLoad ==
  /\ loader.pc = "lt_load"
  /\ \E outcome \in {"loader", "empty", "loaded"} :
       loader' =
         IF loader.extension \notin {".pdf", ".docx", ".txt", ".md"}
           THEN [loader EXCEPT !.pc = "lt_cleanup", !.exit = "unsupported"]
         ELSE IF outcome = "loaded" THEN [loader EXCEPT !.pc = "lt_split"]
         ELSE [loader EXCEPT !.pc = "lt_cleanup", !.exit = outcome]
  /\ UNCHANGED <<naming, deletedProjects, foreign, nonAuxVars>>

\* textSplitter.splitDocuments and the return value
LtSplit ==
  /\ loader.pc = "lt_split"
  /\ \E ok \in BOOLEAN :
       loader' = [loader EXCEPT !.pc = "lt_cleanup",
                                !.exit = IF ok THEN "ok" ELSE "splitter"]
  /\ UNCHANGED <<naming, deletedProjects, foreign, nonAuxVars>>

\* finally: cleanupTempFile, whose fs.unlink may fail with a warning only;
\* then the result is returned or the error is thrown on
LtCleanup ==
  /\ loader.pc = "lt_cleanup"
  /\ \E ok \in BOOLEAN :
       loader' = [loader EXCEPT !.pc = IF loader.exit = "ok" THEN "returned" ELSE "thrown",
                                !.tempFile = ~ok, !.unlinkCalled = TRUE,
                                !.unlinkFailed = ~ok]
  /\ UNCHANGED <<naming, deletedProjects, foreign, nonAuxVars>>

\* the caller has the result or the error; what is on disk stays there
LoadEnd ==
  /\ loader.pc \in {"returned", "thrown"}
  /\ loader' = [IdleLoader EXCEPT !.loads = loader.loads,
                  !.leftovers = loader.leftovers + IF loader.tempFile THEN 1 ELSE 0]
  /\ UNCHANGED <<naming, deletedProjects, foreign, nonAuxVars>>

NextLoader ==
  \/ \E extension \in Extensions : LoadStart(extension)
  \/ LtCreateTempFile
  \/ LtLoad
  \/ LtSplit
  \/ LtCleanup
  \/ LoadEnd

SpecLoader == InitSeq /\ [][NextLoader]_vars

\* the calls alone: the generations they start stay in the background
NextFileCalls ==
  \/ \E j \in FileCallers, fileName \in FileNames : CreateFileStart(j, fileName)
  \/ \E j \in FileCallers : CfFind(j)
  \/ \E j \in FileCallers : CfCreate(j)
  \/ \E j \in FileCallers : CfVersion(j)
  \/ \E j \in FileCallers : CfUpdate(j)
  \/ \E j \in FileCallers, f \in generatedFile : CreateNewVersionStart(j, f.id)
  \/ \E j \in FileCallers : NvFind(j)
  \/ \E j \in FileCallers : NvBase(j)
  \/ \E j \in FileCallers : NvCreate(j)
  \/ \E j \in FileCallers : NvUpdate(j)
  \/ \E j \in FileCallers : CfRefetch(j)
  \/ \E j \in FileCallers : FileCallEnd(j)

SpecFileCalls == InitSeq /\ [][NextFileCalls]_vars

\* the chat entry points: sockets and REST requests, concurrently
NextChat ==
  \/ \E s \in Sessions, p \in Projects, c \in conversations \cup {NoConversation} :
        WsStart(s, p, c)
  \/ \E s \in Sessions : WsValidate(s)
  \/ \E s \in Sessions : WsCreateConversation(s)
  \/ \E s \in Sessions : WsSaveUserMessage(s)
  \/ \E s \in Sessions : WsLoadProject(s)
  \/ \E s \in Sessions : WsMemory(s)
  \/ \E s \in Sessions : WsEmbed(s)
  \/ \E s \in Sessions : WsSearch(s)
  \/ \E s \in Sessions : WsOpenStream(s)
  \/ \E s \in Sessions : WsStreamNext(s)
  \/ \E s \in Sessions : WsSaveAssistantMessage(s)
  \/ \E s \in Sessions : Disconnect(s)
  \/ \E s \in Sessions : EndSession(s)
  \/ \E s \in Sessions, kind \in {"send", "new"}, p \in Projects,
        c \in conversations \cup {NoConversation} : RestStart(s, kind, p, c)
  \/ \E s \in Sessions : RestFind(s)
  \/ \E s \in Sessions : RestCreateConversation(s)
  \/ \E s \in Sessions : RestSaveUserMessage(s)
  \/ \E s \in Sessions : RestQuery(s)
  \/ \E s \in Sessions : RestSaveAssistantMessage(s)

SpecChat == InitChat /\ [][NextChat]_vars

\* the handlers of one socket, request after request
NextWs ==
  \/ \E s \in {"s1"}, p \in Projects, c \in conversations \cup {NoConversation} :
        WsStart(s, p, c)
  \/ \E s \in {"s1"} : WsValidate(s)
  \/ \E s \in {"s1"} : WsCreateConversation(s)
  \/ \E s \in {"s1"} : WsSaveUserMessage(s)
  \/ \E s \in {"s1"} : WsLoadProject(s)
  \/ \E s \in {"s1"} : WsMemory(s)
  \/ \E s \in {"s1"} : WsEmbed(s)
  \/ \E s \in {"s1"} : WsSearch(s)
  \/ \E s \in {"s1"} : WsOpenStream(s)
  \/ \E s \in {"s1"} : WsStreamNext(s)
  \/ \E s \in {"s1"} : WsSaveAssistantMessage(s)
  \/ \E s \in {"s1"} : Disconnect(s)
  \/ \E s \in {"s1"} : EndSession(s)

\* every await of a handler settles: the step after it is taken
SpecWs ==
  /\ InitChat
  /\ [][NextWs]_vars
  /\ \A s \in {"s1"} :
        WF_vars(\/ WsValidate(s) \/ WsCreateConversation(s) \/ WsSaveUserMessage(s)
                \/ WsLoadProject(s) \/ WsMemory(s) \/ WsEmbed(s) \/ WsSearch(s)
                \/ WsOpenStream(s) \/ WsStreamNext(s) \/ WsSaveAssistantMessage(s))

\* a professor other than the one of the sessions starts a conversation in a
\* project of their own
CreateForeignConversation ==
  /\ foreign = {}
  /\ HasFreshConversation
  /\ conversations' = conversations \cup {FreshConversation}
  /\ foreign' = {FreshConversation}
  /\ UNCHANGED <<messages, session, emitted, connected, starts, ragVars, memVars,
                 apiVars, fileVars, naming, loader, deletedProjects>>

\* the chat entry points next to the conversations of other professors
NextCross ==
  \/ NextChat
  \/ CreateForeignConversation

SpecCross == InitChat /\ [][NextCross]_vars

\* the ingestion coordinator and the uploads
Next ==
  \/ \E d \in Documents, p \in Projects, f \in RawFiles : UploadDocument(d, p, f)
  \/ \E t \in Tasks, d \in Documents : StartProcessDocument(t, d)
  \/ \E t \in Tasks : PdFind(t)
  \/ \E t \in Tasks : PdExtract(t)
  \/ \E t \in Tasks : PdSaveText(t)
  \/ \E t \in Tasks : PdCreateCollection(t)
  \/ \E t \in Tasks : PdSetHandle(t)
  \/ \E t \in Tasks : PdEmbed(t)
  \/ \E t \in Tasks : PdStore(t)
  \/ \E t \in Tasks : PdMarkProcessed(t)
  \/ \E t \in Tasks, d \in Documents : StartReprocessDocument(t, d)
  \/ \E t \in Tasks : RpFind(t)
  \/ \E t \in Tasks : RpDeleteChunks(t)
  \/ \E t \in Tasks : RpReset(t)
  \/ \E t \in Tasks, p \in Projects : StartProcessProject(t, p)
  \/ \E t \in Tasks : PpFind(t)
  \/ \E t \in Tasks, d \in Documents : StartDeleteDocument(t, d)
  \/ \E t \in Tasks : DlFind(t)
  \/ \E t \in Tasks : DlDeleteChunks(t)
  \/ \E t \in Tasks : DlDeleteFile(t)
  \/ \E t \in Tasks : DlDeleteRow(t)
  \/ \E t \in Tasks : Respond(t)

\* the whole service, with the object storage changing under it
NextSeq ==
  \/ Next
  \/ \E d \in Documents, f \in RawFiles : ReplaceRawBytes(d, f)
  \/ \E t \in Tasks, kind \in QueryKinds, p \in Projects : StartQuery(t, kind, p)
  \/ \E t \in Tasks : QueryLoadProject(t)
  \/ \E t \in Tasks : QueryAnswer(t)

\* ProjectController.deleteProject between two requests: findFirst by id and
\* professor, then prisma.project.delete, which takes the documents, the
\* conversations and their messages with it (ON DELETE CASCADE); the vector
\* store and the object storage are not called
DeleteProject(p) ==
  /\ p \notin deletedProjects
  /\ \A t \in Tasks : task[t].pc = "idle"
  /\ \A s \in Sessions : session[s].pc = "idle"
  /\ deletedProjects' = deletedProjects \cup {p}
  /\ project' = [project EXCEPT ![p].qdrantCollectionId = Null]
  /\ document' = [d \in Documents |->
       IF document[d].status = "live" /\ document[d].projectId = p
         THEN [NoRow EXCEPT !.status = "deleted"] ELSE document[d]]
  /\ conversations' = conversations \cap foreign
  /\ messages' = SelectSeq(messages, LAMBDA m : m.conversationId \in foreign)
  /\ UNCHANGED <<s3, collections, points, task, active, requests, session, emitted,
                 connected, starts, memVars, apiVars, fileVars, naming, loader,
                 foreign>>

\* uploads and ingests into the projects that exist, and their deletion
NextProjectDelete ==
  \/ \E d \in Documents, p \in Projects \ deletedProjects, f \in RawFiles :
        UploadDocument(d, p, f)
  \/ \E t \in Tasks, d \in Documents : StartProcessDocument(t, d)
  \/ \E t \in Tasks : PdFind(t)
  \/ \E t \in Tasks : PdExtract(t)
  \/ \E t \in Tasks : PdSaveText(t)
  \/ \E t \in Tasks : PdCreateCollection(t)
  \/ \E t \in Tasks : PdSetHandle(t)
  \/ \E t \in Tasks : PdEmbed(t)
  \/ \E t \in Tasks : PdStore(t)
  \/ \E t \in Tasks : PdMarkProcessed(t)
  \/ \E t \in Tasks : Respond(t)
  \/ \E p \in Projects : DeleteProject(p)

SpecProjectDelete == InitSeq /\ [][NextProjectDelete]_vars

\* the ingestion coordinator with both routes that delete a document
NextDocumentDelete ==
  \/ Next
  \/ \E t \in Tasks, d \in Documents : StartRemoveDocument(t, d)

SpecDocumentDelete == InitSeq /\ [][NextDocumentDelete]_vars

\* concurrent requests to the ingestion coordinator
Spec == Init /\ [][Next]_vars

\* the whole service, one request at a time
SpecSeq == InitSeq /\ [][NextSeq]_vars

(***************************************************************************)
(* Properties                                                              *)
(***************************************************************************)
\* no request is being served
Quiescent == \A t \in Tasks : task[t].pc = "idle"

\* the points the vector store holds for document d
StoredPoints(d) == {pt \in points : pt.documentId = d}

IngestPcs == {"pd_find", "pd_s3get", "pd_savetext", "pd_create", "pd_sethandle",
              "pd_embed", "pd_store", "pd_mark"}

\* the task is inside ingest, reingest or delete of a document: it has read
\* the row of the document and has not returned yet
InFlight(t) ==
  /\ task[t].op \in {"ingest", "reingest", "delete"}
  /\ task[t].pc \notin {"idle", "done"}
  /\ ~(task[t].op = "ingest" /\ task[t].pc = "pd_find")
  /\ task[t].pc \notin {"rp_find", "dl_find"}

\* C1: whenever no request is being served, every processed document has
\* exactly as many points in the store as the splitter produces chunks on its
\* text, also after operations that failed part-way.
C1_ExactlyNPoints ==
  Quiescent =>
    \A d \in Documents :
       (document[d].status = "live" /\ document[d].processedAt) =>
          Cardinality(StoredPoints(d)) = Len(splitText(document[d].textContent))

\* C2: at most one ingest, reingest or delete of the same document is in
\* flight at any time.
C2_OneInFlightPerDocument ==
  \A t, u \in Tasks :
     (t # u /\ InFlight(t) /\ InFlight(u)) => task[t].documentId # task[u].documentId

\* C3, as stated: creating the collection and persisting the handle happen
\* under a per-project lock, so two requests are never both between the
\* creation of the collection and the write of the handle for one project.
C3_CreationUnderProjectLock ==
  \A t, u \in Tasks :
     (t # u /\ task[t].pc \in {"pd_create", "pd_sethandle"}
            /\ task[u].pc \in {"pd_create", "pd_sethandle"})
       => task[t].projectId # task[u].projectId

\* C3, amended: without any lock, concurrent first ingests into a project
\* never leave more collections than projects, and every handle, persisted or
\* about to be persisted, names an existing collection.
C3_OneCollectionPerProject ==
  /\ Cardinality(collections) <= Cardinality(Projects)
  /\ \A p \in Projects :
        project[p].qdrantCollectionId # Null => project[p].qdrantCollectionId \in collections
  /\ \A t \in Tasks :
        task[t].pc = "pd_sethandle" => task[t].collectionName \in collections

\* C3 witness: two first ingests into the same project have both created the
\* collection and are both about to persist the handle.
C3_Witness ==
  \E t, u \in Tasks :
     /\ t # u
     /\ task[t].pc = "pd_sethandle" /\ task[u].pc = "pd_sethandle"
     /\ task[t].projectId = task[u].projectId
     /\ Cardinality(collections) = 1

\* C4: a project's collection handle is null until an ingest writes it, and
\* once it is set no step changes or clears it.
C4_HandleSetOnce ==
  [][\A p \in Projects :
        /\ project[p].qdrantCollectionId # Null
             => project'[p].qdrantCollectionId = project[p].qdrantCollectionId
        /\ (project[p].qdrantCollectionId = Null /\ project'[p].qdrantCollectionId # Null)
             => \E t \in Tasks : /\ task[t].op \in {"ingest", "reingest", "project"}
                                 /\ task[t].pc = "pd_sethandle"
                                 /\ task[t].projectId = p]_vars

\* C4 witness: the handle is set, one ingest that found it null is about to
\* write it again and another request has gone past the write.
C4_Witness ==
  \E t, u \in Tasks :
     /\ t # u
     /\ task[t].pc = "pd_sethandle"
     /\ project[task[t].projectId].qdrantCollectionId # Null
     /\ task[u].pc \in {"pd_embed", "pd_store", "pd_mark", "done"}
     /\ task[u].op \in {"ingest", "reingest", "project"}

\* C5: a retry of an ingest that failed part-way never leaves duplicate
\* points: the store holds at most one point per document and chunk index.
C5_NoDuplicatePoints ==
  \A pt1, pt2 \in points :
     (pt1.collection = pt2.collection /\ pt1.documentId = pt2.documentId
        /\ pt1.chunkIndex = pt2.chunkIndex) => pt1.id = pt2.id

\* C6: when a reingest of a document has succeeded, the store holds exactly
\* the points of the text extracted from the bytes now in object storage and
\* no point of an older text.
C6_ReingestReplacesChunks ==
  \A t \in Tasks :
     (task[t].op = "reingest" /\ task[t].pc = "done" /\ task[t].result.success) =>
        LET d == task[t].result.documentId
            text == LoadDocument(s3[d]).text
        IN /\ \A pt \in StoredPoints(d) : pt.text = text
           /\ Cardinality(StoredPoints(d)) = Len(splitText(text))

\* the result of processDocument on a document that is already processed
AlreadyProcessed(r) == r.success /\ r.error = "Document already processed"

\* task t takes a step of an ingest of the document whose reingest was the
\* client's previous call
IngestAfterReingest(t) ==
  /\ task[t].op = "ingest"
  /\ task[t].pc = "pd_find"
  /\ task[t].prev.op = "reingest"
  /\ task[t].prev.documentId = task[t].documentId
  /\ task'[t] # task[t]

\* the step changes neither the store nor the metadata, and ends the call
\* with the given kind of result
NoOpReturning(t, Allowed(_)) ==
  /\ document' = document /\ project' = project
  /\ points' = points /\ collections' = collections
  /\ task'[t].pc = "done"
  /\ Allowed(task'[t].result)

\* C7, as stated: reingest(d) followed by ingest(d) leaves the store and the
\* metadata as reingest(d) alone left them, and the ingest returns
\* AlreadyProcessed.
C7_IngestAfterReingestIsNoOp ==
  [][\A t \in Tasks :
        IngestAfterReingest(t) => NoOpReturning(t, AlreadyProcessed)]_vars

\* C7, amended: after a reingest(d) that succeeded, ingest(d) changes neither
\* the store nor the metadata, and returns AlreadyProcessed unless its own
\* lookup of the document fails.
C7_IngestAfterSuccessfulReingestIsNoOp ==
  [][\A t \in Tasks :
        (IngestAfterReingest(t) /\ task[t].prev.success) =>
           NoOpReturning(t,
             LAMBDA r : AlreadyProcessed(r) \/ (~r.success /\ r.error = ExternalFailure))]_vars

\* C7 witness: the ingest that followed a successful reingest of the same
\* document has returned AlreadyProcessed.
C7_Witness ==
  \E t \in Tasks :
     /\ task[t].op = "ingest" /\ task[t].pc = "done"
     /\ task[t].prev = [op |-> "reingest", documentId |-> task[t].result.documentId,
                        success |-> TRUE]
     /\ AlreadyProcessed(task[t].result)

\* C8: whenever no request is being served, a document is marked processed
\* exactly when the store holds points of it.
C8_ProcessedIffPoints ==
  Quiescent =>
    \A d \in Documents :
       document[d].status = "live" => (document[d].processedAt <=> StoredPoints(d) # {})

\* the documents of project p that are not processed, in the order of the rows
UnprocessedRows(p) ==
  SelectSeq(DocOrder, LAMBDA d : /\ document[d].status = "live"
                                  /\ document[d].projectId = p
                                  /\ document[d].processedAt = FALSE)

HasProcessedDocument(p) ==
  \E d \in Documents : /\ document[d].status = "live"
                       /\ document[d].projectId = p
                       /\ document[d].processedAt

\* C10: a query of any kind on a project that has no collection or no
\* processed document does not produce an answer: it fails.
C10_QueryOfUnindexedProjectFails ==
  \A t \in Tasks :
     (task[t].op \in QueryKinds /\ task[t].pc = "done"
        /\ ~HasProcessedDocument(task[t].projectId))
       => task[t].reply.kind = "error"

\* the assistant messages that chat request r has written
AssistantMessages(log, r) ==
  {i \in 1..Len(log) : log[i].role = "ASSISTANT" /\ log[i].request = r}

\* C11: an assistant message is written only by a request whose model
\* response has completed, and a request that failed, in the model call, in
\* the stream or anywhere else, has written no assistant message.
C11_AssistantOnlyAfterFullResponse ==
  [][/\ \A i \in 1..Len(messages') :
          (i > Len(messages) /\ messages'[i].role = "ASSISTANT") =>
             \E s \in Sessions : /\ session[s].request = messages'[i].request
                                 /\ session[s].response = "complete"
                                 /\ messages'[i].content = session[s].received
     /\ \A s \in Sessions :
          session'[s].pc = "failed" =>
             AssistantMessages(messages', session'[s].request) = {}]_vars

\* C11 witness: one streaming request has completed and written its answer,
\* another has failed after receiving part of the stream and has written none.
C11_Witness ==
  \E s, u \in Sessions :
     /\ session[s].kind = "ws" /\ session[s].pc = "completed"
     /\ AssistantMessages(messages, session[s].request) # {}
     /\ session[u].kind = "ws" /\ session[u].pc = "failed"
     /\ session[u].response = "streaming" /\ session[u].received > 0
     /\ AssistantMessages(messages, session[u].request) = {}

\* C12: every assistant message comes later in the insertion order of its
\* conversation than the user message of the same request.
C12_AssistantAfterUserMessage ==
  \A i \in 1..Len(messages) :
     messages[i].role = "ASSISTANT" =>
        \E j \in 1..(i - 1) : /\ messages[j].role = "USER"
                              /\ messages[j].request = messages[i].request
                              /\ messages[j].conversationId = messages[i].conversationId

\* C12 witness: two requests on the same conversation ran concurrently and the
\* answer of the later request was written before the answer of the earlier.
C12_Witness ==
  \E i, j \in 1..Len(messages) :
     /\ i < j
     /\ messages[i].role = "ASSISTANT" /\ messages[j].role = "ASSISTANT"
     /\ messages[i].conversationId = messages[j].conversationId
     /\ messages[i].request > messages[j].request

\* the status stages among the events
Stages(events) ==
  SelectSeq(events, LAMBDA e : e \in {"status:validating", "status:conversation",
      "status:memory", "status:embedding", "status:search", "status:generating",
      "status:saving", "status:completed"})

\* the positions of event e
Positions(events, e) == {i \in 1..Len(events) : events[i] = e}

\* every e comes before every f
AllBefore(events, e, f) ==
  \A i \in Positions(events, e), j \in Positions(events, f) : i < j

\* C13: a start request that has run to completion has emitted the stages
\* validating, conversation, memory, embedding, search, generating, saving,
\* completed in exactly this order, conversation_created and user_message
\* between status:conversation and status:memory, and status:saving only
\* after the stream.
C13_StageOrder ==
  \A s \in Sessions :
     (session[s].kind = "ws" /\ session[s].pc = "completed") =>
        /\ Stages(emitted[s]) =
             <<"status:validating", "status:conversation", "status:memory",
               "status:embedding", "status:search", "status:generating",
               "status:saving", "status:completed">>
        /\ AllBefore(emitted[s], "status:conversation", "conversation_created")
        /\ AllBefore(emitted[s], "conversation_created", "status:memory")
        /\ AllBefore(emitted[s], "status:conversation", "user_message")
        /\ AllBefore(emitted[s], "user_message", "status:memory")
        /\ AllBefore(emitted[s], "stream_start", "status:saving")
        /\ AllBefore(emitted[s], "stream_chunk", "status:saving")

\* C14: once the client of a streaming session has disconnected, the request
\* does no further work and writes no assistant message.
C14_DisconnectCancels ==
  [][\A s \in Sessions :
        (session[s].kind = "ws" /\ ~connected[s]) =>
           /\ session'[s].pc \in {session[s].pc, "failed", "idle"}
           /\ AssistantMessages(messages', session[s].request)
                = AssistantMessages(messages, session[s].request)]_vars

RECURSIVE OutputTokens(_)
\* the estimated tokens of a list of chat messages, item by item
OutputTokens(items) ==
  IF items = <<>> THEN 0
  ELSE estimateTokens(Head(items).chars) + OutputTokens(Tail(items))

\* C15: the messages that the memory manager hands to the chat model, system
\* notes and recent messages, total at most maxTokens estimated tokens, and
\* so does the token count it reports, in buffer mode and in hybrid mode.
C15_MemoryWithinBudget ==
  memcall.pc = "mm_done" =>
     /\ memcall.memory.tokenCount <= maxTokens
     /\ OutputTokens(formatMemoryForAI(memcall.memory)) <= maxTokens

\* C16: a hybrid memory whose summary generation failed is the memory that
\* buffer mode builds for the same messages, and it has no summary.
C16_SummaryFailureFallsBackToBuffer ==
  (memcall.pc = "mm_done" /\ memcall.summaryFailed) =>
     /\ memcall.memory = createBufferMemory(memcall.allMessages)
     /\ memcall.memory.summary = NoSummary
     /\ \A i \in 1..Len(formatMemoryForAI(memcall.memory)) :
           formatMemoryForAI(memcall.memory)[i].role # "system"
              \/ memcall.memory.entities > 0

\* the attempts and waits the retry policy allows for op
AllowedAttempts(op) == IF op = "generateStreamingChatCompletion" THEN 2 ELSE 3

\* C17: a call to the provider makes at most 3 attempts (2 for the streaming
\* chat call); each failed attempt but the last allowed one is followed by a
\* wait, of 1s after the first and doubling; the error reaches the caller only
\* when the last allowed attempt has failed, and then without a wait.
C17_BoundedRetryWithBackoff ==
  \A k \in Callers :
     calls[k].pc # "idle" =>
        /\ calls[k].attempt <= AllowedAttempts(calls[k].op)
        /\ \A i \in 1..Len(calls[k].waited) :
              calls[k].waited[i] = 1000 * (2 ^ (i - 1))
        /\ calls[k].pc = "waiting" => Len(calls[k].waited) = calls[k].attempt
        /\ calls[k].pc = "thrown" =>
              /\ calls[k].attempt = AllowedAttempts(calls[k].op)
              /\ Len(calls[k].waited) = calls[k].attempt - 1

\* the version rows of file id
VersionsOf(id) == {v \in generatedFileVersion : v.fileId = id}

\* a call or a background generation is still at work on file id
JobPending(id) ==
  \/ \E j \in FileCallers : fcall[j].pc \notin {"idle", "returned", "thrown"}
                            /\ fcall[j].fileId = id
  \/ \E g \in DOMAIN generation : generation[g].fileId = id
                                  /\ generation[g].pc # "g_done"

\* C18: the version numbers of every file are exactly 1..N, without gaps or
\* duplicates, and currentVersion is N whenever no job is pending on the file.
C18_DenseVersions ==
  \A f \in generatedFile :
     LET N == Cardinality(VersionsOf(f.id))
     IN  /\ {v.version : v \in VersionsOf(f.id)} = 1..N
         /\ Cardinality({v.version : v \in VersionsOf(f.id)}) = N
         /\ ~JobPending(f.id) => f.currentVersion = N

\* the rows that call number c has inserted
FilesBy(c) == {f \in generatedFile : f.call = c}
VersionsBy(c) == {v \in generatedFileVersion : v.call = c}

\* C19: at most one file has a given file name, in every state; and a
\* createFile that found a file of its name has inserted no file row, and when
\* it returns it has inserted exactly one version row, of the existing file,
\* and returns the existing file.
C19_CreateFileReusesExistingFile ==
  /\ \A f, g \in generatedFile : f.fileName = g.fileName => f = g
  /\ \A j \in FileCallers :
        (fcall[j].op = "createFile" /\ fcall[j].existing # NoFileId) =>
           /\ FilesBy(fcall[j].call) = {}
           /\ \A v \in VersionsBy(fcall[j].call) : v.fileId = fcall[j].existing
           /\ Cardinality(VersionsBy(fcall[j].call)) <= 1
           /\ fcall[j].pc = "returned" =>
                 /\ Cardinality(VersionsBy(fcall[j].call)) = 1
                 /\ fcall[j].result = fcall[j].existing

\* C19 witness: a createFile has returned the file that an earlier createFile
\* made, after adding version 2 to it.
C19_Witness ==
  \E j \in FileCallers :
     /\ fcall[j].op = "createFile" /\ fcall[j].pc = "returned"
     /\ fcall[j].existing # NoFileId
     /\ \E v \in VersionsBy(fcall[j].call) : v.version = 2
     /\ Cardinality(generatedFile) = 1

\* C20: once the progress event `completed` of a version has been sent, the
\* version row has its storage key and the status completed.
C20_CompletedEventAfterRowUpdate ==
  \A g \in DOMAIN generation :
     (\E i \in 1..Len(generation[g].events) : generation[g].events[i] = "completed") =>
        /\ VersionOf(g).s3Key # ""
        /\ VersionOf(g).status = "completed"

\* C21: createFile and createNewVersion return while the generation they
\* started is still running, and a generation that is over has left its
\* version completed or failed, never pending or generating.
C21_FinishedJobHasFinalStatus ==
  \A g \in DOMAIN generation :
     generation[g].pc = "g_done" => VersionOf(g).status \in {"completed", "failed"}

\* C22: once the version row of a running generation has been deleted the
\* generation does nothing more: it takes no further step, writes no bytes and
\* sends no event.
C22_DeleteStopsGeneration ==
  [][\A g \in DOMAIN generation :
        ~RowExists(g) =>
           /\ generation'[g] = generation[g]
           /\ \A b \in storage' \ storage : b[1] # generation[g].fileId]_vars

\* C23: when deleteFile has returned, no version row and no stored bytes of
\* the file are left.
C23_DeleteRemovesRowsAndBytes ==
  \A j \in FileCallers :
     (fcall[j].op = "deleteFile" /\ fcall[j].pc = "returned") =>
        /\ \A v \in generatedFileVersion : v.fileId # fcall[j].fileId
        /\ \A b \in storage : b[1] # fcall[j].fileId

StatusRank(status) ==
  CASE status = "pending" -> 0
    [] status = "generating" -> 1
    [] OTHER -> 2

\* C29: the status of a version is one of pending, generating, completed and
\* failed and only moves forward in that order; a completed or failed version
\* keeps its status, also when failed is written a second time.
C29_StatusMovesForward ==
  [][\A v \in generatedFileVersion, w \in generatedFileVersion' :
        (w.fileId = v.fileId /\ w.version = v.version) =>
           /\ w.status \in {"pending", "generating", "completed", "failed"}
           /\ \/ w.status = v.status
              \/ /\ v.status \in {"pending", "generating"}
                 /\ StatusRank(w.status) > StatusRank(v.status)]_vars

\* C29 witness: a generation has written failed twice, in its own catch and in
\* the .catch of createFile, and the version is failed.
C29_Witness ==
  \E g \in DOMAIN generation :
     /\ generation[g].failedWrites = 2
     /\ RowExists(g)
     /\ VersionOf(g).status = "failed"

\* C24: generateFileName is idempotent: the file name of a file name is that
\* file name.
C24_SlugIdempotent ==
  naming.pc = "twice" => naming.again = naming.fileName

\* C25: after a project has been deleted, the vector store holds no collection
\* and no point of it.
C25_DeletedProjectHasNoCollection ==
  \A p \in deletedProjects :
     /\ CollectionName(p) \notin collections
     /\ \A pt \in points : pt.collection # CollectionName(p)

\* C30: once the row of a document has been deleted, no point with the id of
\* the document is left in the vector store.
C30_DeletedDocumentHasNoPoints ==
  \A d \in Documents :
     document[d].status = "deleted" => \A pt \in points : pt.documentId # d

\* C26: a chat request of the professor on their project writes no message
\* into, and builds no memory from, a conversation of a project of another
\* professor.
C26_NoForeignConversationUsed ==
  /\ \A i \in DOMAIN messages : messages[i].conversationId \notin foreign
  /\ \A s \in Sessions :
        session[s].pc \in {"ws_embed", "ws_search", "ws_open", "ws_stream", "ws_save"}
           => session[s].conversationId \notin foreign

Terminals(s) ==
  {i \in 1..Len(emitted[s]) : emitted[s][i] \in {"status:completed", "error"}}

\* C28: a chat:start request gets one terminal event, the status completed or
\* an error, as the last event of the request: never two, none after it, and
\* every request gets to it.
C28_OneTerminalEvent ==
  /\ [](\A s \in Sessions :
          /\ Cardinality(Terminals(s)) <= 1
          /\ Terminals(s) # {} <=> session[s].pc \in {"completed", "failed"}
          /\ Terminals(s) # {} => Terminals(s) = {Len(emitted[s])}
          /\ session[s].pc = "completed" => emitted[s][Len(emitted[s])] = "status:completed"
          /\ session[s].pc = "failed" => emitted[s][Len(emitted[s])] = "error")
  /\ \A s \in Sessions :
        (session[s].pc # "idle") ~> (session[s].pc \in {"completed", "failed"})

\* C28 witness: a request has failed in the middle of the stream, after a
\* content delta was sent, and its last event is the error.
C28_Witness ==
  \E s \in Sessions :
     /\ session[s].pc = "failed"
     /\ session[s].received > 0
     /\ emitted[s][Len(emitted[s])] = "error"
     /\ Cardinality(Terminals(s)) = 1

\* C27: after a load has returned or thrown, on any exit path, no temporary
\* file of the load is on disk.
C27_NoTempFileAfterLoad ==
  loader.pc \in {"returned", "thrown"} => ~loader.tempFile

====
